---- MODULE Spec2Model ----
(***************************************************************************)
(* A model of the SSRF relay (app.py, blog_blueprint.py), the admin surface *)
(* and its access gate (admin_blueprint.py, deployment_config.py), the      *)
(* response filter (enhanced_security.py), the rate limiter                 *)
(* (rate_limiter.py) and the file-name sanitizer (security_utils.py).       *)
(*                                                                          *)
(* Strings whose characters the code inspects (URLs, paths, header values,  *)
(* file names) are sequences of one-character strings.  Response bodies and *)
(* form values are sequences of words (see the response filter below).      *)
(***************************************************************************)
EXTENDS Integers, Sequences, FiniteSets, TLC

(***************************************************************************)
(* String helpers (Python str methods used by the code)                     *)
(***************************************************************************)
LowerLetters == <<"a","b","c","d","e","f","g","h","i","j","k","l","m",
                  "n","o","p","q","r","s","t","u","v","w","x","y","z">>
UpperLetters == <<"A","B","C","D","E","F","G","H","I","J","K","L","M",
                  "N","O","P","Q","R","S","T","U","V","W","X","Y","Z">>
DigitChars == <<"0","1","2","3","4","5","6","7","8","9">>

Range(s) == { s[i] : i \in 1..Len(s) }

IsLower(c) == c \in Range(LowerLetters)
IsUpper(c) == c \in Range(UpperLetters)
IsAlpha(c) == IsLower(c) \/ IsUpper(c)
IsDigit(c) == c \in Range(DigitChars)

\* str.lower() on one character
LowerChar(c) ==
  IF IsUpper(c)
  THEN LowerLetters[CHOOSE i \in 1..26 : UpperLetters[i] = c]
  ELSE c

\* str.lower()
Lower(s) == [i \in 1..Len(s) |-> LowerChar(s[i])]

\* str.startswith(p)
StartsWith(s, p) == Len(s) >= Len(p) /\ SubSeq(s, 1, Len(p)) = p

\* s[i:] with a 1-based first index
From(s, i) == SubSeq(s, i, Len(s))

\* 1-based index of the first position >= from at which p occurs in s, 0 if none
\* (str.find, shifted by one)
Find(s, p, from) ==
  LET hits == { i \in from..(Len(s) - Len(p) + 1) : SubSeq(s, i, i + Len(p) - 1) = p }
  IN  IF hits = {} THEN 0 ELSE CHOOSE i \in hits : \A j \in hits : i <= j

\* p in s
Contains(s, p) == Find(s, p, 1) # 0

\* index of the first character of s, at or after from, that is in set cs; 0 if none
FindAny(s, cs, from) ==
  LET hits == { i \in from..Len(s) : s[i] \in cs }
  IN  IF hits = {} THEN 0 ELSE CHOOSE i \in hits : \A j \in hits : i <= j

\* index of the last occurrence of character c in s; 0 if none (str.rpartition)
RFindChar(s, c) ==
  LET hits == { i \in 1..Len(s) : s[i] = c }
  IN  IF hits = {} THEN 0 ELSE CHOOSE i \in hits : \A j \in hits : i >= j

\* str.replace(old, new): every non-overlapping occurrence, left to right
RECURSIVE Replace(_, _, _)
Replace(s, old, new) ==
  LET i == Find(s, old, 1)
  IN  IF old = <<>> \/ i = 0 THEN s
      ELSE SubSeq(s, 1, i - 1) \o new \o Replace(From(s, i + Len(old)), old, new)

\* the characters of s that are not in set cs (a chain of str.replace(c, ''))
RECURSIVE RemoveChars(_, _)
RemoveChars(s, cs) ==
  IF s = <<>> THEN <<>>
  ELSE (IF s[1] \in cs THEN <<>> ELSE <<s[1]>>) \o RemoveChars(Tail(s), cs)

\* str.strip() of spaces
RECURSIVE LStrip(_)
LStrip(s) == IF s # <<>> /\ s[1] = " " THEN LStrip(Tail(s)) ELSE s
RECURSIVE RStrip(_)
RStrip(s) == IF s # <<>> /\ s[Len(s)] = " " THEN RStrip(SubSeq(s, 1, Len(s) - 1)) ELSE s
Strip(s) == RStrip(LStrip(s))

\* Non-empty and every character one of 0..9
AsciiDigits(s) == s # <<>> /\ \A i \in 1..Len(s) : IsDigit(s[i])

\* The characters of a header value (latin-1) besides 0..9 that str.isdigit()
\* takes for digits: the superscripts one, two and three (bytes B9, B2, B3)
SuperscriptDigits == {"SUP1", "SUP2", "SUP3"}

\* str.isdigit(): non-empty and every character a digit; int() does not
\* accept the superscripts
isdigit(s) == s # <<>> /\ \A i \in 1..Len(s) : IsDigit(s[i]) \/ s[i] \in SuperscriptDigits

DigitVal(c) == (CHOOSE i \in 1..10 : DigitChars[i] = c) - 1

RECURSIVE DigitsVal(_)
DigitsVal(s) ==
  IF s = <<>> THEN 0 ELSE 10 * DigitsVal(SubSeq(s, 1, Len(s) - 1)) + DigitVal(s[Len(s)])

\* int(s): surrounding whitespace and one sign are accepted; anything else
\* raises ValueError
Unsigned(t) == IF t # <<>> /\ t[1] \in {"+", "-"} THEN Tail(t) ELSE t
IntOk(s) == AsciiDigits(Unsigned(Strip(s)))

SignedVal(t) == IF t # <<>> /\ t[1] = "-" THEN 0 - DigitsVal(Tail(t)) ELSE DigitsVal(Unsigned(t))
int(s) == SignedVal(Strip(s))

\* str(n) for an integer n
RECURSIVE NatStr(_)
NatStr(n) == IF n < 10 THEN <<DigitChars[n + 1]>> ELSE NatStr(n \div 10) \o <<DigitChars[(n % 10) + 1]>>
str(n) == IF n < 0 THEN <<"-">> \o NatStr(0 - n) ELSE NatStr(n)


(***************************************************************************)
(* String constants of the code                                             *)
(***************************************************************************)
s_http == <<"h","t","t","p">>
s_https == s_http \o <<"s">>
s_css == <<":","/","/">>
s_localhost == <<"l","o","c","a","l","h","o","s","t">>
s_loopback == <<"1","2","7",".","0",".","0",".","1">>
s_admin == <<"a","d","m","i","n">>
s_url == <<"u","r","l">>
s_true == <<"t","r","u","e">>
s_ipv6_loopback == <<":",":","1">>
p_admin == <<"/">> \o s_admin
p_logs == <<"/","l","o","g","s">>
p_settings == <<"/","s","e","t","t","i","n","g","s">>
p_admin_slash == p_admin \o <<"/">>
p_admin_logs == p_admin \o p_logs
p_admin_settings == p_admin \o p_settings
p_fetch_next == <<"/","f","e","t","c","h","-","n","e","x","t">>
p_post_fetch_next == <<"/","p","o","s","t","/","1">> \o p_fetch_next
\* "http://admin", "http://127.0.0.1/admin", "http://127.0.0.1:80/admin"
s_http_admin == s_http \o s_css \o s_admin
s_lo_admin == s_http \o s_css \o s_loopback \o p_admin
s_lo80 == s_http \o s_css \o s_loopback \o <<":","8","0">>
s_lo80_admin == s_lo80 \o p_admin

\* Python's None where a string is expected: distinct from every string
NoneStr == <<"<None>">>

(***************************************************************************)
(* urllib.parse.urlparse and the hostname property, on the characters the   *)
(* model uses (no ';' parameters, no brackets, no '%', no control           *)
(* characters)                                                              *)
(***************************************************************************)
SchemeChars == Range(LowerLetters) \cup Range(UpperLetters) \cup Range(DigitChars) \cup {"+", "-", "."}

\* The index of the ':' that ends the scheme, 0 when the url has no scheme
SchemeEnd(url) ==
  LET i == Find(url, <<":">>, 1)
  IN  IF i > 1 /\ IsAlpha(url[1]) /\ (\A k \in 1..(i - 1) : url[k] \in SchemeChars) THEN i ELSE 0

\* For the text after the scheme: the index at which the part after the
\* netloc begins (1 when there is no '//')
NetlocEnd(rest) ==
  IF ~StartsWith(rest, <<"/", "/">>) THEN 1
  ELSE LET e == FindAny(rest, {"/", "?", "#"}, 3) IN IF e = 0 THEN Len(rest) + 1 ELSE e

\* The text before the first '#'
DropFragment(s) == LET f == Find(s, <<"#">>, 1) IN IF f = 0 THEN s ELSE SubSeq(s, 1, f - 1)

\* The part of a request target before '?', and the part after it
TargetPath(target) ==
  LET q == Find(target, <<"?">>, 1) IN IF q = 0 THEN target ELSE SubSeq(target, 1, q - 1)
TargetQuery(target) ==
  LET q == Find(target, <<"?">>, 1) IN IF q = 0 THEN <<>> ELSE From(target, q + 1)

urlparse_tail(scheme, netloc, tail) ==
  [scheme |-> scheme, netloc |-> netloc, path |-> TargetPath(tail), query |-> TargetQuery(tail)]

urlparse_rest(scheme, rest, e) ==
  urlparse_tail(scheme, IF e = 1 THEN <<>> ELSE SubSeq(rest, 3, e - 1), DropFragment(From(rest, e)))

urlparse_scheme(scheme, rest) == urlparse_rest(scheme, rest, NetlocEnd(rest))

urlparse_at(url, i) ==
  IF i = 0 THEN urlparse_scheme(<<>>, url)
  ELSE urlparse_scheme(Lower(SubSeq(url, 1, i - 1)), From(url, i + 1))

urlparse(url) == urlparse_at(url, SchemeEnd(url))

\* ParseResult.hostname: after the last '@', before the first ':', lowercased;
\* None when empty
hostinfo_host(hostinfo) ==
  LET c == Find(hostinfo, <<":">>, 1)
  IN  IF c = 1 THEN NoneStr
      ELSE IF c = 0 THEN (IF hostinfo = <<>> THEN NoneStr ELSE Lower(hostinfo))
      ELSE Lower(SubSeq(hostinfo, 1, c - 1))

hostname(parsed) == hostinfo_host(From(parsed.netloc, RFindChar(parsed.netloc, "@") + 1))

\* str.split(c)
RECURSIVE Split(_, _)
Split(s, c) ==
  LET i == Find(s, <<c>>, 1)
  IN  IF i = 0 THEN <<s>> ELSE <<SubSeq(s, 1, i - 1)>> \o Split(From(s, i + 1), c)

\* request.args.get(key): the value of the first key=value pair of the query
\* string whose key is `key`; None when there is none
PairKey(p) == LET e == Find(p, <<"=">>, 1) IN IF e = 0 THEN p ELSE SubSeq(p, 1, e - 1)
PairValue(p) == LET e == Find(p, <<"=">>, 1) IN IF e = 0 THEN <<>> ELSE From(p, e + 1)

args_get_pairs(pairs, key) ==
  LET hits == { i \in 1..Len(pairs) : pairs[i] # <<>> /\ PairKey(pairs[i]) = key }
  IN  IF hits = {} THEN NoneStr
      ELSE PairValue(pairs[CHOOSE i \in hits : \A j \in hits : i <= j])

args_get(query, key) == args_get_pairs(Split(query, "&"), key)

(***************************************************************************)
(* ipaddress.ip_address for dotted quads: four decimal parts of one to      *)
(* three digits, each at most 255.  Anything else is not an IPv4 address    *)
(* (an IPv6 address, or ValueError): either way it is in no IPv4 network.   *)
(***************************************************************************)
IsQuad(parts) ==
  /\ Len(parts) = 4
  /\ \A i \in 1..4 : /\ AsciiDigits(parts[i])
                     /\ Len(parts[i]) <= 3
                     /\ DigitsVal(parts[i]) <= 255

Octets(parts) == [i \in 1..4 |-> DigitsVal(parts[i])]

\* DeploymentConfig.INTERNAL_NETWORKS, as predicates on the four octets
INTERNAL_NETWORKS(o) ==
  \/ o[1] = 127                          \* 127.0.0.0/8
  \/ o[1] = 10                           \* 10.0.0.0/8
  \/ (o[1] = 172 /\ o[2] \in 16..31)     \* 172.16.0.0/12
  \/ (o[1] = 192 /\ o[2] = 168)          \* 192.168.0.0/16

is_internal_ip(ip_address) ==
  IF ip_address = NoneStr \/ ip_address = <<>> THEN FALSE
  ELSE IF ip_address \in {s_loopback, s_localhost, s_ipv6_loopback} THEN TRUE
  ELSE \E parts \in {Split(ip_address, ".")} : IsQuad(parts) /\ INTERNAL_NETWORKS(Octets(parts))

(***************************************************************************)
(* Requests and responses.  A request's headers and form are functions      *)
(* whose domain is the set of names present.  A response is a status, a     *)
(* Content-Type (NoHeader when the response carries none) and a body, a     *)
(* sequence of words; "\n" is the line break.                               *)
(***************************************************************************)
HeaderGet(headers, name) == IF name \in DOMAIN headers THEN headers[name] ELSE NoneStr

EmptyMap == [k \in {} |-> <<>>]

\* dict.get / args.get with a default
OrDefault(value, default) == IF value = NoneStr THEN default ELSE value

NoHeader == "<no header>"
HTML == "text/html; charset=utf-8"
JSON == "application/json"
PLAIN == "text/plain"

\* flask.jsonify of a one-key object
jsonify(key, message) == <<"{", key, ":">> \o message \o <<"}">>
\* flask.jsonify of a two-key object
jsonify2(k1, m1, k2, m2) == <<"{", k1, ":">> \o m1 \o <<",", k2, ":">> \o m2 \o <<"}">>

Response(status, ctype, body) == [status |-> status, ctype |-> ctype, body |-> body]

\* xs occurs in ws as a run of consecutive words
ContainsWords(ws, xs) == \E i \in 1..(Len(ws) - Len(xs) + 1) : SubSeq(ws, i, i + Len(xs) - 1) = xs

(***************************************************************************)
(* deployment_config.py: the admin access gate                              *)
(***************************************************************************)
proxy_headers == <<"X-Forwarded-For", "X-Real-IP", "X-Client-IP", "CF-Connecting-IP", "True-Client-IP">>

\* The first proxy header with a non-empty value wins (of a comma-separated
\* list, its first entry, stripped); otherwise the connection's address.
first_entry(ip) == IF Contains(ip, <<",">>) THEN Strip(Split(ip, ",")[1]) ELSE ip

get_real_client_ip(request) ==
  LET present == { i \in 1..Len(proxy_headers) :
                     HeaderGet(request.headers, proxy_headers[i]) \notin {NoneStr, <<>>} }
  IN  IF present = {} THEN request.remote_addr
      ELSE first_entry(request.headers[proxy_headers[CHOOSE i \in present : \A j \in present : i <= j]])

\* validate_ssrf_headers without the X-SSRF-Request entry of the table
validate_ssrf_headers_depth_only(request_headers) ==
  /\ HeaderGet(request_headers, "X-SSRF-Depth") # NoneStr
  /\ isdigit(HeaderGet(request_headers, "X-SSRF-Depth"))

\* REQUIRED_SSRF_HEADERS: X-SSRF-Request is 'true'; X-SSRF-Depth is present
\* and isdigit()
validate_ssrf_headers(request_headers) ==
  /\ HeaderGet(request_headers, "X-SSRF-Request") = s_true
  /\ HeaderGet(request_headers, "X-SSRF-Depth") # NoneStr
  /\ isdigit(HeaderGet(request_headers, "X-SSRF-Depth"))

validate_admin_access(request) ==
  IF ~is_internal_ip(get_real_client_ip(request)) THEN FALSE
  ELSE IF ~validate_ssrf_headers(request.headers) THEN FALSE
  ELSE TRUE

(***************************************************************************)
(* admin_blueprint.py: the admin surface                                    *)
(***************************************************************************)
AccessDenied ==
  Response(403, JSON, jsonify2("error", <<"Access", "Denied">>,
                               "message", <<"This", "admin", "panel", "is", "not", "accessible", "for", "you.">>))

\* Jinja2 autoescaping of one word
EscapeWord(w) ==
  CASE w = "'" -> "&#39;"
    [] w = "<script>" -> "&lt;script&gt;"
    [] OTHER -> w
Escape(ws) == [i \in 1..Len(ws) |-> EscapeWord(ws[i])]

\* ADMIN_TEMPLATE rendered for a page: the static markup is kept as a few
\* words, the two substitutions (log_file in the input's value, output in the
\* output block) are escaped and spliced in where the template has them.
render_admin_template(page, output, log_file) ==
  <<"<title>Admin", "Panel</title>", "\n", "<h1>Admin", "Panel</h1>", "\n">>
  \o (CASE page = "dashboard" -> <<"<h2>Dashboard</h2>", "\n">>
        [] page = "settings" -> <<"<h2>System", "Settings</h2>", "\n">>
        [] page = "logs" ->
             <<"<h2>System", "Logs</h2>", "\n", "<input", "value=">> \o Escape(log_file) \o <<">", "\n">>
             \o (IF output # <<>>
                 THEN <<"<div", "class=output>">> \o Escape(output) \o <<"</div>", "\n">>
                 ELSE <<>>))
  \o <<"</html>">>

admin_log_sample ==
  <<"2024-01-15", "10:30:22", "-", "Admin", "login", "successful", "\n",
    "2024-01-15", "10:31:45", "-", "Configuration", "updated", "\n",
    "2024-01-15", "10:32:10", "-", "User", "permissions", "modified">>
error_log_sample ==
  <<"2024-01-15", "09:15:33", "-", "Database", "connection", "timeout", "\n",
    "2024-01-15", "09:20:11", "-", "Failed", "authentication", "attempt", "\n",
    "2024-01-15", "09:25:44", "-", "Memory", "usage", "warning">>
access_log_sample ==
  <<"127.0.0.1", "-", "-", "[15/Jan/2024:10:30:22]", "GET", "/admin", "HTTP/1.1", "200", "1234", "\n",
    "127.0.0.1", "-", "-", "[15/Jan/2024:10:31:45]", "POST", "/admin/logs", "HTTP/1.1", "200", "567">>

\* The words that contain 'flag.txt' as a substring
FlagWords == {"flag.txt", "/var/flag/flag.txt", "x;flag.txt"}

\* The flag file as the handler finds it: its content, or absent (open raises)
FlagFiles == {"present", "missing"}
flag_content == <<"CTF{flag}">>

\* The output admin_logs computes for a POST; `flag` is the state of
\* /var/log/app/flag.txt
admin_logs_output(log_file, flag) ==
  IF \E i \in 1..Len(log_file) : log_file[i] \in FlagWords
  THEN (IF flag = "present" THEN <<"Flag:">> \o flag_content
        ELSE <<"Error", "reading", "flag:", "[Errno 2]", "No", "such", "file">>)
  ELSE IF log_file = <<"admin.log">> THEN admin_log_sample
  ELSE IF log_file = <<"error.log">> THEN error_log_sample
  ELSE IF log_file = <<"access.log">> THEN access_log_sample
  ELSE <<"Log", "file", "'">> \o log_file \o <<"'", "not", "found", "or", "access", "denied.">>

form_get(form, key) == IF key \in DOMAIN form THEN form[key] ELSE <<>>

admin_logs_post(log_file, flag) ==
  Response(200, HTML, render_admin_template("logs", admin_logs_output(log_file, flag), log_file))

admin_logs(request, flag) ==
  IF request.method = "POST" THEN admin_logs_post(form_get(request.form, "log_file"), flag)
  ELSE Response(200, HTML, render_admin_template("logs", <<>>, <<>>))

admin_dashboard == Response(200, HTML, render_admin_template("dashboard", <<>>, <<>>))
admin_settings == Response(200, HTML, render_admin_template("settings", <<>>, <<>>))

\* The routes of admin_bp under /admin, with the methods each accepts
AdminRoutes == {p_admin_slash, p_admin_logs, p_admin_settings}
RouteMethods(path) == IF path = p_admin_logs THEN {"GET", "POST"} ELSE {"GET"}

\* check_ssrf_access(): the header test, the test for a request made by the
\* application itself, the user-agent test; shutdown is
\* request.environ.get('werkzeug.server.shutdown'), NoneStr when not set
s_python_requests == <<"p","y","t","h","o","n","-","r","e","q","u","e","s","t","s">>

check_ssrf_access(request) ==
  IF /\ HeaderGet(request.headers, "X-SSRF-Request") = s_true
     /\ HeaderGet(request.headers, "X-SSRF-Depth") # NoneStr
  THEN TRUE
  ELSE IF request.shutdown # NoneStr THEN TRUE
  ELSE IF /\ Contains(Lower(OrDefault(HeaderGet(request.headers, "User-Agent"), <<>>)), s_python_requests)
          /\ HeaderGet(request.headers, "X-SSRF-Request") = s_true
  THEN TRUE
  ELSE FALSE

\* require_ssrf_access around a view
require_ssrf_access(request, view) ==
  IF ~validate_admin_access(request) THEN AccessDenied ELSE view

\* A request served by an application that registers admin_bp under /admin:
\* routing (Flask answers 308 for /admin without its slash, 404 for an
\* unknown path, 405 for a method the route does not list), then the gate,
\* then the view.
AdminApp(request, flag) ==
  IF request.path = p_admin
  THEN Response(308, HTML, <<"Redirecting...">>)
  ELSE IF request.path \notin AdminRoutes
  THEN Response(404, HTML, <<"Not", "Found">>)
  ELSE IF request.method \notin RouteMethods(request.path)
  THEN Response(405, HTML, <<"Method", "Not", "Allowed">>)
  ELSE require_ssrf_access(request,
         CASE request.path = p_admin_slash -> admin_dashboard
           [] request.path = p_admin_logs -> admin_logs(request, flag)
           [] request.path = p_admin_settings -> admin_settings)

(***************************************************************************)
(* enhanced_security.py: SecurityFilter.filter_response_content             *)
(*                                                                          *)
(* The filter's regular expressions, on words.  A word stands for the text  *)
(* between two blanks, so \s+ is the gap between two words (line breaks     *)
(* included) and .* runs to the end of the line.  The sets below list the   *)
(* words of the model that a pattern matches.                               *)
(***************************************************************************)
FILTERED == "[FILTERED]"
TotalWords == {"total", "Total"}                       \* total
NumberWords == {"0", "4", "8", "200", "567", "1234"}   \* \d+
\* drwx.*  -rw-.*  root:.*  bin:.*  daemon:.*
LinePatterns == <<{"drwxr-xr-x"}, {"-rw-r--r--"}, {"root:x:0:0:root:/root:/bin/bash"},
                  {"bin:x:2:2:bin:/bin:/usr/sbin/nologin"}, {"daemon:x:1:1:daemon:/usr/sbin:/usr/sbin/nologin"}>>
NameWords == {"id", "whoami", "ls", "etc", "passwd", "Admin", "login"}   \* \w+

\* re.sub of a pattern `first\s+second`: the two words become one [FILTERED]
RECURSIVE SubPair(_, _, _)
SubPair(ws, first, second) ==
  IF ws = <<>> THEN <<>>
  ELSE IF ws[1] \in first
  THEN LET gap == CHOOSE n \in 0..(Len(ws) - 1) :
                     /\ \A k \in 2..(n + 1) : ws[k] = "\n"
                     /\ (n + 2 > Len(ws) \/ ws[n + 2] # "\n")
       IN  IF gap + 2 <= Len(ws) /\ ws[gap + 2] \in second
           THEN <<FILTERED>> \o SubPair(From(ws, gap + 3), first, second)
           ELSE <<ws[1]>> \o SubPair(Tail(ws), first, second)
  ELSE <<ws[1]>> \o SubPair(Tail(ws), first, second)

\* re.sub of a pattern `word.*`: from the word to the end of its line
RECURSIVE SubLine(_, _)
SubLine(ws, starts) ==
  IF ws = <<>> THEN <<>>
  ELSE IF ws[1] \in starts
  THEN LET nl == Find(ws, <<"\n">>, 1)
       IN  <<FILTERED>> \o (IF nl = 0 THEN <<>> ELSE SubLine(From(ws, nl), starts))
  ELSE <<ws[1]>> \o SubLine(Tail(ws), starts)

RECURSIVE SubLines(_, _)
SubLines(ws, k) ==
  IF k > Len(LinePatterns) THEN ws ELSE SubLines(SubLine(ws, LinePatterns[k]), k + 1)

IsHtmlType(content_type) == content_type \in {HTML, "text/html", "TEXT/HTML"}

filter_response_content(content, content_type) ==
  IF content = <<>> THEN content
  ELSE IF IsHtmlType(content_type)
  THEN SubPair(SubPair(SubLines(SubPair(content, TotalWords, NumberWords), 1),
                       {"$"}, NameWords \cup NumberWords),
               {"#"}, NameWords \cup NumberWords)
  ELSE content

(***************************************************************************)
(* enhanced_security.py: the allowlists of SecurityFilter.validate_url      *)
(***************************************************************************)
ALLOWED_PATHS == {p_admin, p_admin_slash, p_admin_logs, p_admin_settings, p_logs, <<"/">>, <<>>}
ALLOWED_QUERY_PARAMS == {<<"l", "o", "g", "_", "f", "i", "l", "e">>}

\* The keys of urllib.parse.parse_qs(query): a pair with no value is dropped
parse_qs_keys_of(pairs) ==
  { PairKey(pairs[i]) : i \in { k \in 1..Len(pairs) : PairValue(pairs[k]) # <<>> } }
parse_qs_keys(query) == parse_qs_keys_of(Split(query, "&"))

\* validate_url's two allowlist tests on a parsed url
path_allowed(parsed) == parsed.path \in ALLOWED_PATHS
query_params_allowed(parsed) ==
  parsed.query = <<>> \/ parse_qs_keys(parsed.query) \subseteq ALLOWED_QUERY_PARAMS

\* character c, then any whitespace, then a word character: ;\s*\w+ and \|\s*\w+
WordChars == Range(LowerLetters) \cup Range(UpperLetters) \cup Range(DigitChars) \cup {"_"}
ThenWord(content, c) ==
  \E i \in 1..Len(content) : \E j \in (i + 1)..Len(content) :
    /\ content[i] = c
    /\ content[j] \in WordChars
    /\ \A k \in (i + 1)..(j - 1) : content[k] \in {" ", "\t", "\n", "\r"}

\* is_safe_content: of DANGEROUS_PATTERNS, the matchers for /bin/bash,
\* /bin/sh, &&, ||, ;word and |word (the others need text that no value
\* given to validate_url below holds)
is_safe_content(content) ==
  \/ content = <<>>
  \/ ~ \/ Contains(Lower(content), <<"/","b","i","n","/","b","a","s","h">>)
        \/ Contains(Lower(content), <<"/","b","i","n","/","s","h">>)
        \/ Contains(content, <<"&","&">>)
        \/ Contains(content, <<"|","|">>)
        \/ ThenWord(content, ";")
        \/ ThenWord(content, "|")

\* The values parse_qs keeps: those of the pairs whose value is not blank
parse_qs_values(pairs) ==
  { PairValue(pairs[i]) : i \in { k \in 1..Len(pairs) : PairValue(pairs[k]) # <<>> } }

Valid == [ok |-> TRUE, reason |-> <<>>]
Invalid(reason) == [ok |-> FALSE, reason |-> reason]

\* validate_url from the query test on
validate_query(keys, values) ==
  IF ~(keys \subseteq ALLOWED_QUERY_PARAMS)
  THEN Invalid(<<"Query", "parameter", "is", "not", "allowed">>)
  ELSE IF \E v \in values : ~is_safe_content(v)
  THEN Invalid(<<"Dangerous", "content", "detected", "in", "parameter">>)
  ELSE Valid

\* validate_url on the parsed url
validate_parsed(parsed) ==
  IF ~path_allowed(parsed) THEN Invalid(<<"Path", "is", "not", "allowed">>)
  ELSE IF parsed.query # <<>>
  THEN validate_query(parse_qs_keys(parsed.query), parse_qs_values(Split(parsed.query, "&")))
  ELSE Valid

\* SecurityFilter.validate_url(url): (is_valid, error_message)
validate_url(url) == validate_parsed(urlparse(url))

(***************************************************************************)
(* app.py fetch_next and blog_blueprint.py post_fetch_next: the relay       *)
(***************************************************************************)
allowed_hosts == {s_localhost, s_loopback, s_admin}

\* The depth at which the relay refuses (ssrf_depth >= 2)
MaxSsrfDepth == 2

\* str(e) of the exceptions the handler can meet
ValueErrorText == <<"invalid", "literal", "for", "int()", "with", "base", "10">>
RequestExceptions ==
  { <<"HTTPConnectionPool(host='127.0.0.1',", "port=80):", "Read", "timed", "out.">>,
    <<"HTTPConnectionPool(host='127.0.0.1',", "port=80):", "Max", "retries", "exceeded">> }

\* Which view of the application serves a path
Route(path) ==
  IF path = p_fetch_next THEN "fetch_next"
  ELSE IF path = p_post_fetch_next THEN "post_fetch_next"
  ELSE "other"

\* The answer to GET without a url: a description of the endpoint
relay_info(endpoint) ==
  Response(200, JSON,
    <<"{", "endpoint", ":", IF endpoint = "fetch_next" THEN "/fetch-next" ELSE "/post/1/fetch-next", ",",
      "method", ":", "POST", ",", "description", ":", "Fetch", "content", "from", "external", "URLs", ",",
         "parameters", ":", "{", "url", ":", "The", "URL", "to", "fetch", "content", "from", "}", ",",
         "example", ":", "curl", "-X", "POST", ",",
         "note", ":", "Supports", "internal", "URLs", "like", "admin,", "localhost", "}">>)

\* The condition under which the relay calls the admin routes in process
is_admin_url(internal_url) ==
  \/ StartsWith(internal_url, s_http_admin \o <<"/">>)
  \/ StartsWith(internal_url, s_lo_admin \o <<"/">>)
  \/ StartsWith(internal_url, s_lo80_admin \o <<"/">>)
  \/ StartsWith(internal_url, s_lo80_admin)
  \/ internal_url = s_http_admin
  \/ internal_url = s_lo_admin
  \/ internal_url = s_lo80_admin
  \/ StartsWith(internal_url, s_http_admin \o <<"?">>)
  \/ StartsWith(internal_url, s_lo_admin \o <<"?">>)
  \/ StartsWith(internal_url, s_lo80_admin \o <<"?">>)

\* The path handed to the test client
admin_path_of(internal_url) ==
  LET admin_path == Replace(Replace(Replace(internal_url, s_http_admin, p_admin),
                                    s_lo_admin, p_admin),
                            s_lo80_admin, p_admin)
  IN  IF admin_path = p_admin THEN p_admin_slash ELSE admin_path

\* environ_overrides that passes the inbound depth on unchanged and leaves
\* out HTTP_X_SSRF_REQUEST
environ_overrides_depth_only(current_depth) ==
  [h \in {"X-SSRF-Depth"} |-> str(current_depth)]

\* The headers the relay sets on an in-process dispatch (environ_overrides)
environ_overrides(current_depth) ==
  [h \in {"X-SSRF-Request", "X-SSRF-Depth"} |->
     IF h = "X-SSRF-Request" THEN s_true ELSE str(current_depth + 1)]

Respond(resp) == [kind |-> "respond", resp |-> resp]
BadRequest(message) == Respond(Response(400, JSON, jsonify("error", message)))

\* client.post / client.get on the test client of an application that has
\* only the admin routes
in_process_call(admin_path, current_depth, form_data) ==
  [kind |-> "inproc",
   call |-> [kind |-> "inproc", url |-> admin_path,
             method |-> IF DOMAIN form_data # {} THEN "POST" ELSE "GET",
             path |-> TargetPath(admin_path), query |-> TargetQuery(admin_path),
             headers |-> environ_overrides(current_depth),
             form |-> form_data, remote_addr |-> s_loopback,
             allow_redirects |-> FALSE, max_retries |-> 0]]

\* http_call with allow_redirects left at its default
http_call_following(internal_url, target, form_data) ==
  [kind |-> "http",
   call |-> [kind |-> "http", url |-> internal_url,
             method |-> IF DOMAIN form_data # {} THEN "POST" ELSE "GET",
             path |-> TargetPath(target), query |-> TargetQuery(target),
             headers |-> EmptyMap,
             form |-> form_data, remote_addr |-> s_loopback,
             allow_redirects |-> TRUE, max_retries |-> 0]]

\* requests.post / requests.get: no header of the inbound request, and none
\* of the relay's own, goes on the call; allow_redirects=False; the session
\* requests makes for the call retries nothing (max_retries 0)
http_call(internal_url, target, form_data) ==
  [kind |-> "http",
   call |-> [kind |-> "http", url |-> internal_url,
             method |-> IF DOMAIN form_data # {} THEN "POST" ELSE "GET",
             path |-> TargetPath(target), query |-> TargetQuery(target),
             headers |-> EmptyMap,
             form |-> form_data, remote_addr |-> s_loopback,
             allow_redirects |-> FALSE, max_retries |-> 0]]

\* The status codes requests takes for a redirect
RedirectCodes == {301, 302, 303, 307, 308}

\* Whether requests goes on to the Location of the answer it got
Follows(call, first) == call.allow_redirects /\ first.status \in RedirectCodes

\* The request requests sends to the Location of a redirect
Redirected(call) == [call EXCEPT !.method = "GET", !.form = EmptyMap]

\* What requests does with a call whose first answer is `first`: the
\* requests it sent, the answers it got, the response it returns (`second`
\* is the answer to the request it sends when it follows a redirect)
requests_send(call, first, second) ==
  IF Follows(call, first)
  THEN [calls |-> <<call, Redirected(call)>>, got |-> <<first, second>>, response |-> second]
  ELSE [calls |-> <<call>>, got |-> <<first>>, response |-> first]

\* The requests sent for a call that fails every time
Attempts(call) == [i \in 1..(1 + call.max_retries) |-> call]

relay_dispatch(internal_url, ssrf_depth, form_data) ==
  IF is_admin_url(internal_url)
  THEN in_process_call(admin_path_of(internal_url), ssrf_depth, form_data)
  ELSE http_call(internal_url, From(internal_url, Len(s_lo80) + 1), form_data)

\* internal_url_of with the netloc of the url kept
internal_url_keeping_netloc(parsed_url, host) ==
  s_http \o s_css \o parsed_url.netloc
  \o (IF host = s_admin THEN p_admin ELSE <<>>)
  \o parsed_url.path
  \o (IF parsed_url.query # <<>> THEN <<"?">> \o parsed_url.query ELSE <<>>)

\* internal_url: http://127.0.0.1:80, /admin for the admin host, then the
\* path and the query of the url
internal_url_of(parsed_url, host) ==
  s_lo80
  \o (IF host = s_admin THEN p_admin ELSE <<>>)
  \o parsed_url.path
  \o (IF parsed_url.query # <<>> THEN <<"?">> \o parsed_url.query ELSE <<>>)

relay_plan_host(parsed_url, host, ssrf_depth, form_data) ==
  IF host \notin allowed_hosts
  THEN BadRequest(<<"Host", "not", "allowed">>)
  ELSE relay_dispatch(internal_url_of(parsed_url, host), ssrf_depth, form_data)

relay_plan_parsed(parsed_url, ssrf_depth, form_data) ==
  IF parsed_url.scheme # s_http
  THEN BadRequest(<<"Only", "HTTP", "URLs", "are", "allowed">>)
  ELSE relay_plan_host(parsed_url, hostname(parsed_url), ssrf_depth, form_data)

\* relay_plan_depth with the limit compared by > instead of >=
relay_plan_depth_gt(url, ssrf_depth, form_data) ==
  IF ssrf_depth > MaxSsrfDepth
  THEN Respond(Response(403, JSON, jsonify("error",
         <<"Maximum", "SSRF", "request", "depth", "exceeded", "for", "security", "reasons">>)))
  ELSE relay_plan_parsed(urlparse(url), ssrf_depth, form_data)

relay_plan_depth(url, ssrf_depth, form_data) ==
  IF ssrf_depth >= MaxSsrfDepth
  THEN Respond(Response(403, JSON, jsonify("error",
         <<"Maximum", "SSRF", "request", "depth", "exceeded", "for", "security", "reasons">>)))
  ELSE relay_plan_parsed(urlparse(url), ssrf_depth, form_data)

relay_plan_url(request, endpoint, url, depth_text) ==
  IF request.method = "GET" /\ url = <<>>
  THEN Respond(relay_info(endpoint))
  ELSE IF url = <<>>
  THEN BadRequest(<<"URL", "parameter", "is", "required">>)
  ELSE IF ~IntOk(depth_text)
  THEN [kind |-> "raise", exc |-> ValueErrorText]
  ELSE relay_plan_depth(url, int(depth_text),
                        [k \in (DOMAIN request.form) \ {"url"} |-> request.form[k]])


\* The handler up to its downstream call.  The result says what the handler
\* does next: answer at once ("respond"), raise ("raise"), call the admin
\* routes in process ("inproc") or make an HTTP call ("http").  The two
\* relays share this code line for line.
relay_plan(request, endpoint) ==
  relay_plan_url(request, endpoint,
                 OrDefault(args_get(request.query, s_url), <<>>),
                 OrDefault(HeaderGet(request.headers, "X-SSRF-Depth"), <<"0">>))

\* What each relay returns for a downstream response: fetch_next passes the
\* body through the response filter, post_fetch_next returns it as it is.
\* A response without Content-Type counts as text/html.
relay_return(endpoint, content, status_code, content_type) ==
  Response(status_code, content_type,
           IF endpoint = "fetch_next" THEN filter_response_content(content, content_type)
           ELSE content)

relay_finish(endpoint, response) ==
  relay_return(endpoint, response.body, response.status,
               IF response.ctype = NoHeader THEN "text/html" ELSE response.ctype)

\* except requests.exceptions.RequestException
relay_request_failed(endpoint, exc) ==
  Response(500, JSON, jsonify("error", <<"Request", "failed:">> \o exc))

\* except Exception
relay_unexpected(endpoint, exc) ==
  Response(500, JSON,
           jsonify("error", (IF endpoint = "fetch_next" THEN <<"Unexpected", "error:">>
                             ELSE <<"Internal", "error:">>) \o exc))

(***************************************************************************)
(* State                                                                    *)
(***************************************************************************)
VARIABLES
  cur,        \* relay: the request a relay view is about to handle (<<>> or one frame)
  stack,      \* relay: the relay views blocked in an HTTP call, outermost first
  ret,        \* relay: the response on its way back to the caller (<<>> or one)
  last,       \* relay: the handler run that finished last: request, call made, response
  admin_seen, \* gate: the last request sent straight to the admin routes, and its answer
  now,             \* limiter: time.time(), in whole seconds
  request_history, \* limiter: RateLimiter.request_history, client -> timestamps, oldest first
  blocked_ips,     \* limiter: RateLimiter.blocked_ips, client -> unblock time
  thr,             \* limiter: each request thread's position in check_rate_limit and its locals
  rl_out,          \* limiter: the check that finished last, with what was known when it ran
  rl_obs,          \* limiter: per client, what has been observed of the checks so far
  resolving,       \* files: the validate_file_path call in progress or just finished (<<>> or one)
  logs_seen,       \* logs: the request to a log view that finished last (<<>> or one)
  logs_denied,     \* logs: the denials GET /logs/logs has answered so far (status and body)
  access_seen,     \* policy: the check_ssrf_access call that finished last (<<>> or one)
  validated,       \* filter: the validate_url call that finished last (<<>> or one)
  table_call       \* table: the is_blocked call that finished last, with the tables before and after (<<>> or one)

relay_vars == <<cur, stack, ret, last>>
gate_vars == <<admin_seen>>
limiter_vars == <<now, request_history, blocked_ips, thr, rl_out, rl_obs>>
files_vars == <<resolving>>
logs_vars == <<logs_seen, logs_denied>>
policy_vars == <<access_seen>>
filter_vars == <<validated>>
table_vars == <<table_call>>
vars == <<relay_vars, gate_vars, limiter_vars, files_vars, logs_vars, policy_vars, filter_vars, table_vars>>

(***************************************************************************)
(* The requests a client may send to the relay                              *)
(***************************************************************************)
\* How many times a url may wrap another relay url
MaxNest == 2

s_evil == <<"e","v","i","l",".","c","o","m">>
s_file_q == <<"?","f","i","l","e","=","a","d","m","i","n",".","l","o","g">>
s_debug_q == <<"?","d","e","b","u","g","=","1">>
Url(scheme, netloc, rest) == scheme \o s_css \o netloc \o rest

BaseUrls ==
  { Url(s_http, s_admin, p_logs),                                  \* http://admin/logs
    Url(s_http, s_admin, <<>>),                                    \* http://admin
    Url(s_http, s_admin, p_settings),                              \* http://admin/settings
    Url(s_http, s_admin, <<"/","s","e","c","r","e","t">>),         \* http://admin/secret
    Url(s_http, s_localhost, p_admin_logs),                        \* http://localhost/admin/logs
    Url(s_http, s_localhost, <<"/">>),                             \* http://localhost/
    Url(s_http, s_loopback, p_logs \o p_logs \o s_file_q),         \* http://127.0.0.1/logs/logs?file=admin.log
    Url(s_http, s_localhost, <<"/","x">> \o s_debug_q),            \* http://localhost/x?debug=1
    Url(s_http, s_evil, <<"/">>),                                  \* http://evil.com/
    Url(s_http, s_admin \o <<".">> \o s_evil, p_logs),             \* http://admin.evil.com/logs
    Url(s_https, s_admin, p_logs),                                 \* https://admin/logs
    Url(<<"H","T","T","P">>, <<"A","d","m","i","n">>, p_logs),     \* HTTP://Admin/logs
    Url(s_http, s_evil \o <<"@">> \o s_admin \o <<":","8","0","8","0">>, p_logs),  \* http://evil.com@admin:8080/logs
    Url(s_http, s_admin \o <<"@">> \o s_evil, p_logs),             \* http://admin@evil.com/logs
    Url(s_http, s_evil \o <<"@">> \o s_localhost \o <<":","8","0","8","0">>, <<"/","x">>),  \* http://evil.com@localhost:8080/x
    Url(s_http, s_loopback \o <<":","8","0","8","0">>, <<"/">>),   \* http://127.0.0.1:8080/
    s_admin \o p_logs,                                             \* admin/logs
    s_http \o s_css \o p_admin }                                   \* http:///admin

\* url wrapped in a relay url on the loopback host
Wrap(url, relay_path) == Url(s_http, s_localhost, relay_path \o <<"?">> \o s_url \o <<"=">> \o url)

RECURSIVE Nested(_)
Nested(k) ==
  IF k = 0 THEN { Url(s_http, s_admin, p_logs), Url(s_http, s_evil, <<"/">>), Url(s_http, s_localhost, <<"/">>) }
  ELSE { Wrap(u, p_fetch_next) : u \in Nested(k - 1) }
       \cup (IF k = 1 THEN { Wrap(Url(s_http, s_admin, p_logs), p_post_fetch_next) } ELSE {})

ClientUrls == BaseUrls \cup UNION { Nested(k) : k \in 1..MaxNest }

ClientQueries == { <<>>, s_url \o <<"=">> } \cup { s_url \o <<"=">> \o u : u \in ClientUrls }

DepthValues == { <<"0">>, <<"1">>, <<"2">>, <<"7">>, <<"1","0">>, <<"-","1">>, <<"-","3">>,
                 <<"a","b","c">>, <<>>, <<" ","2">> }

\* headers built from the chosen values; a name whose value is NoneStr is absent
MkHeaders(h) == [n \in { m \in DOMAIN h : h[m] # NoneStr } |-> h[n]]

ClientForms ==
  { EmptyMap,
    [k \in {"log_file"} |-> <<"admin.log">>],
    [k \in {"log_file"} |-> <<"x;flag.txt">>],
    [k \in {"url"} |-> <<"http://evil.com/">>],
    [k \in {"url", "log_file"} |-> IF k = "url" THEN <<"http://evil.com/">> ELSE <<"error.log">>] }

s_external == <<"2","0","3",".","0",".","1","1","3",".","9">>

ClientRequests ==
  { [method |-> m, path |-> p, query |-> q,
     headers |-> MkHeaders([n \in {"X-SSRF-Depth"} |-> d]),
     form |-> f, remote_addr |-> s_external] :
       m \in {"GET", "POST"}, p \in {p_fetch_next, p_post_fetch_next}, q \in ClientQueries,
       d \in DepthValues \cup {NoneStr}, f \in ClientForms }

\* What the loopback port answers for a path that is no relay view (the blog
\* pages, the logs service, or nothing the application routes)
UpstreamResponses ==
  { Response(200, HTML, <<"<h1>Blog</h1>", "\n", "Welcome">>),
    Response(200, HTML, <<"total", "8", "\n", "drwxr-xr-x", "2", "root", "\n", "$", "id">>),
    Response(200, PLAIN, <<"root:x:0:0:root:/root:/bin/bash", "\n", "$", "id">>),
    Response(200, NoHeader, <<"#", "whoami">>),
    Response(302, HTML, <<"Redirecting...">>),
    Response(404, HTML, <<"Not", "Found">>) }

(***************************************************************************)
(* The relay as a state machine.  A handler runs to its downstream call; an *)
(* HTTP call to a relay path of the same application starts a nested        *)
(* handler, whose response the caller then finishes.                        *)
(***************************************************************************)
Frame(request) == [request |-> request, endpoint |-> Route(request.path)]

Done(frame, calls, resp, exc, got) ==
  [request |-> frame.request, endpoint |-> frame.endpoint, calls |-> calls,
   resp |-> resp, exc |-> exc, got |-> got]

InitRelay ==
  /\ cur = <<>>
  /\ stack = <<>>
  /\ ret = <<>>
  /\ last = <<>>

InitGate == admin_seen = <<>>

(***************************************************************************)
(* rate_limiter.py.  Time is in whole seconds.  The sections the code runs  *)
(* under self.lock are single steps.                                        *)
(***************************************************************************)
\* rate_limiter = RateLimiter(max_requests=5, time_window=1, block_duration=60)
max_requests == 5
time_window == 1
block_duration == 60

NoTime == 0 - 1

\* dict without a key
Without(d, key) == [k \in (DOMAIN d) \ {key} |-> d[k]]
\* dict with a key set
With(d, key, value) == [k \in (DOMAIN d) \cup {key} |-> IF k = key THEN value ELSE d[k]]

\* is_blocked with the expiry compared by <= instead of <
is_blocked_le(blocked, ip_address, t) ==
  IF ip_address \in DOMAIN blocked
  THEN (IF t <= blocked[ip_address]
        THEN [ret |-> TRUE, blocked_ips |-> blocked]
        ELSE [ret |-> FALSE, blocked_ips |-> Without(blocked, ip_address)])
  ELSE [ret |-> FALSE, blocked_ips |-> blocked]

\* is_blocked removing every expired entry when it removes one
is_blocked_purging(blocked, ip_address, t) ==
  IF ip_address \in DOMAIN blocked
  THEN (IF t < blocked[ip_address]
        THEN [ret |-> TRUE, blocked_ips |-> blocked]
        ELSE [ret |-> FALSE,
              blocked_ips |-> [k \in { c \in DOMAIN blocked : t < blocked[c] } |-> blocked[k]]])
  ELSE [ret |-> FALSE, blocked_ips |-> blocked]

\* RateLimiter.is_blocked, run at time t: the value returned and the table left
is_blocked(blocked, ip_address, t) ==
  IF ip_address \in DOMAIN blocked
  THEN (IF t < blocked[ip_address]
        THEN [ret |-> TRUE, blocked_ips |-> blocked]
        ELSE [ret |-> FALSE, blocked_ips |-> Without(blocked, ip_address)])
  ELSE [ret |-> FALSE, blocked_ips |-> blocked]

\* while request_times and current_time - request_times[0] > self.time_window: popleft()
RECURSIVE popleft_old(_, _)
popleft_old(request_times, current_time) ==
  IF request_times # <<>> /\ current_time - request_times[1] > time_window
  THEN popleft_old(Tail(request_times), current_time)
  ELSE request_times

\* The test that decides a block
rate_exceeded(request_times) == Len(request_times) > max_requests

\* should_block_appended without the clear() of the blocked client's history
should_block_not_clearing(history, blocked, ip_address, current_time, request_times) ==
  IF rate_exceeded(request_times)
  THEN [ret |-> TRUE,
        request_history |-> With(history, ip_address, request_times),
        blocked_ips |-> With(blocked, ip_address, current_time + block_duration)]
  ELSE [ret |-> FALSE,
        request_history |-> With(history, ip_address, request_times),
        blocked_ips |-> blocked]

\* should_block from the append on, for the deque as it is after the append
should_block_appended(history, blocked, ip_address, current_time, request_times) ==
  IF rate_exceeded(request_times)
  THEN [ret |-> TRUE,
        request_history |-> With(history, ip_address, <<>>),
        blocked_ips |-> With(blocked, ip_address, current_time + block_duration)]
  ELSE [ret |-> FALSE,
        request_history |-> With(history, ip_address, request_times),
        blocked_ips |-> blocked]

\* defaultdict(deque)[key]
history_get(history, ip_address) ==
  IF ip_address \in DOMAIN history THEN history[ip_address] ELSE <<>>

\* RateLimiter.should_block, the section under the lock, for the current_time
\* the caller read before it took the lock
should_block(history, blocked, ip_address, current_time) ==
  should_block_appended(history, blocked, ip_address, current_time,
    Append(popleft_old(history_get(history, ip_address), current_time), current_time))



\* The request threads, and the clients (the addresses get_client_ip returns).
\* Serial are the threads that take requests when they come one after another.
Threads == {1, 2}
Serial == {1}
Clients == {"c1"}

Idle == [pc |-> "idle", ip_address |-> "", since |-> NoTime, checked_at |-> NoTime, current_time |-> NoTime]

NoObs == [allowed |-> <<>>, block_from |-> NoTime]

InitLimiter ==
  /\ now = 0
  /\ request_history = [c \in {} |-> <<>>]
  /\ blocked_ips = [c \in {} |-> 0]
  /\ thr = [t \in Threads |-> Idle]
  /\ rl_out = <<>>
  /\ rl_obs = [c \in Clients |-> NoObs]

(***************************************************************************)
(* security_utils.py.  A filename is a sequence of characters; "NUL" stands *)
(* for the null byte.  A path is a directory and the name of a file in it.  *)
(***************************************************************************)
ALLOWED_LOG_DIR == <<"var", "log", "app">>

f_admin_log == <<"a", "d", "m", "i", "n", ".", "l", "o", "g">>
f_error_log == <<"e", "r", "r", "o", "r", ".", "l", "o", "g">>
f_access_log == <<"a", "c", "c", "e", "s", "s", ".", "l", "o", "g">>
f_system_log == <<"s", "y", "s", "t", "e", "m", ".", "l", "o", "g">>
f_flag_txt == <<"f", "l", "a", "g", ".", "t", "x", "t">>
ALLOWED_LOG_FILES == {f_admin_log, f_error_log, f_access_log, f_system_log, f_flag_txt}

\* re.match(r'^[a-zA-Z0-9._-]+$', filename): one or more safe characters; $
\* also matches just before a newline that ends the string
SafeChars == Range(LowerLetters) \cup Range(UpperLetters) \cup Range(DigitChars) \cup {".", "_", "-"}
AllSafe(s) == s # <<>> /\ \A i \in 1..Len(s) : s[i] \in SafeChars
SafeMatch(s) ==
  IF s # <<>> /\ s[Len(s)] = "\n" THEN AllSafe(SubSeq(s, 1, Len(s) - 1)) ELSE AllSafe(s)

\* sanitize_stripped with the whitelist compared without regard to case
sanitize_stripped_any_case(filename) ==
  IF ~SafeMatch(filename) THEN NoneStr
  ELSE IF StartsWith(filename, <<".">>) \/ Contains(filename, <<".", ".">>) THEN NoneStr
  ELSE IF Lower(filename) \notin ALLOWED_LOG_FILES THEN NoneStr
  ELSE filename

\* sanitize_filename after the three replace calls
sanitize_stripped(filename) ==
  IF ~SafeMatch(filename) THEN NoneStr
  ELSE IF StartsWith(filename, <<".">>) \/ Contains(filename, <<".", ".">>) THEN NoneStr
  ELSE IF filename \notin ALLOWED_LOG_FILES THEN NoneStr
  ELSE filename

\* sanitize_stripped without the whitelist test
sanitize_filename_no_whitelist(filename) ==
  IF filename = NoneStr \/ filename = <<>> THEN NoneStr
  ELSE IF ~SafeMatch(RemoveChars(filename, {"/", "\\", "NUL"})) THEN NoneStr
  ELSE IF StartsWith(RemoveChars(filename, {"/", "\\", "NUL"}), <<".">>)
          \/ Contains(RemoveChars(filename, {"/", "\\", "NUL"}), <<".", ".">>) THEN NoneStr
  ELSE RemoveChars(filename, {"/", "\\", "NUL"})

sanitize_filename(filename) ==
  IF filename = NoneStr \/ filename = <<>> THEN NoneStr
  ELSE sanitize_stripped(RemoveChars(filename, {"/", "\\", "NUL"}))

\* dangerous_chars of sanitize_command_input; "BACKTICK" stands for the backtick
dangerous_chars == {"&", "|", ";", "$", "BACKTICK", "(", ")", "{", "}", "[", "]",
                    "<", ">", "!", "?", "*", "~", "^", "\n", "\r", "\t"}

sanitize_command_input(user_input) ==
  IF user_input = NoneStr \/ user_input = <<>> THEN NoneStr
  ELSE IF \E i \in 1..Len(user_input) : user_input[i] \in dangerous_chars THEN NoneStr
  ELSE sanitize_filename(user_input)

\* What the filesystem holds at a path when validate_file_path looks
FileKinds == {"regular", "missing", "directory", "link_outside", "link_inside"}

NoPath == [dir |-> <<>>, name |-> NoneStr]

\* os.path.realpath(file_path), for what the filesystem holds there: a link
\* is followed, anything else is the path itself
realpath(file_path, kind) ==
  CASE kind = "link_outside" -> [dir |-> <<"etc">>, name |-> <<"p", "a", "s", "s", "w", "d">>]
    [] kind = "link_inside" -> [dir |-> ALLOWED_LOG_DIR, name |-> f_system_log]
    [] OTHER -> file_path

\* resolved_path.startswith(allowed_dir_real + os.sep)
InsideAllowedDir(resolved_path) == resolved_path.dir = ALLOWED_LOG_DIR

\* os.path.exists(resolved_path) and os.path.isfile(resolved_path); the
\* target of a link is a regular file
ExistsAsFile(kind) == kind \in {"regular", "link_outside", "link_inside"}

\* validate_resolved without the test that the resolved path is inside the
\* allowed directory
validate_resolved_anywhere(resolved_path, kind) ==
  IF ~ExistsAsFile(kind) THEN NoPath
  ELSE resolved_path

validate_resolved(resolved_path, kind) ==
  IF ~InsideAllowedDir(resolved_path) THEN NoPath
  ELSE IF ~ExistsAsFile(kind) THEN NoPath
  ELSE resolved_path

validate_safe(safe_filename, kind) ==
  IF safe_filename = NoneStr THEN NoPath
  ELSE validate_resolved(realpath([dir |-> ALLOWED_LOG_DIR, name |-> safe_filename], kind), kind)

\* validate_file_path(filename), with what the filesystem holds at the path
\* it builds
validate_file_path(filename, kind) == validate_safe(sanitize_filename(filename), kind)

InitFiles == resolving = <<>>

(***************************************************************************)
(* security_utils.read_file_safely and the view of logs_blueprint.py.  The  *)
(* content of a file is written as the words "content of" and its path.     *)
(***************************************************************************)
\* MAX_FILE_SIZE = 1024 * 1024
MAX_FILE_SIZE == 1048576

\* What open() does with a validated path: it returns a file, or raises
OpenOutcomes == {"file", "PermissionError", "OSError"}
\* What f.tell() returns at the end of the file
FileSizes == {0, MAX_FILE_SIZE, MAX_FILE_SIZE + 1}

Content(path) == <<"content", "of">> \o path.dir \o path.name

ReadFailed(error_msg) == [success |-> FALSE, content |-> <<>>, error_msg |-> error_msg, read |-> {}]

\* read_file_safely from the open() on, for the path validate_file_path gave
read_validated(safe_path, opening, file_size) ==
  IF safe_path = NoPath THEN ReadFailed(<<"Access", "denied:", "Invalid", "file", "or", "path">>)
  ELSE IF opening = "PermissionError" THEN ReadFailed(<<"Permission", "denied">>)
  ELSE IF opening = "OSError" THEN ReadFailed(<<"Error", "reading", "file:", "Access", "denied">>)
  ELSE IF file_size > MAX_FILE_SIZE THEN ReadFailed(<<"File", "too", "large", "to", "display">>)
  ELSE [success |-> TRUE, content |-> Content(safe_path), error_msg |-> <<>>, read |-> {safe_path}]

\* read_file_safely(filename): (success, content, error_msg), and the files
\* f.read() was run on
read_file_safely(filename, kind, opening, file_size) ==
  read_validated(validate_file_path(filename, kind), opening, file_size)

\* logs() from the read on
logs_read(r) ==
  IF r.success THEN [resp |-> Response(200, PLAIN, r.content), read |-> r.read]
  ELSE [resp |-> Response(403, PLAIN, r.error_msg), read |-> {}]

\* logs() after sanitize_filename
logs_sanitized(safe_filename, kind, opening, file_size) ==
  IF safe_filename = NoneStr
  THEN [resp |-> Response(403, PLAIN, <<"Access", "denied:", "Invalid", "filename">>), read |-> {}]
  ELSE logs_read(read_file_safely(safe_filename, kind, opening, file_size))

\* The view logs(): file is the value of the query parameter, NoneStr when
\* the request has none
logs(file, kind, opening, file_size) ==
  logs_sanitized(sanitize_filename(OrDefault(file, f_system_log)), kind, opening, file_size)

\* The files admin_logs runs f.read() on
admin_logs_reads(request, flag) ==
  IF /\ request.method = "POST"
     /\ \E i \in 1..Len(form_get(request.form, "log_file")) : form_get(request.form, "log_file")[i] \in FlagWords
     /\ flag = "present"
  THEN {[dir |-> ALLOWED_LOG_DIR, name |-> f_flag_txt]}
  ELSE {}

InitLogs == logs_seen = <<>> /\ logs_denied = {}

InitPolicy == access_seen = <<>>

InitFilter == validated = <<>>

InitTable == table_call = <<>>

Init == InitRelay /\ InitGate /\ InitLimiter /\ InitFiles /\ InitLogs /\ InitPolicy /\ InitFilter /\ InitTable

\* A step of the relay leaves the rest alone
RelayOnly == UNCHANGED <<gate_vars, limiter_vars, files_vars, logs_vars, policy_vars, filter_vars, table_vars>>

\* A client sends a request to one of the two relay views
ClientRequest ==
  /\ cur = <<>> /\ stack = <<>> /\ ret = <<>> /\ last = <<>>
  /\ \E r \in ClientRequests : cur' = <<Frame(r)>>
  /\ UNCHANGED <<stack, ret, last>>
  /\ RelayOnly

\* The handler answers without a downstream call: the endpoint description,
\* a 400, the depth 403, or the 500 of an exception raised before the call
RelayRespond ==
  /\ cur # <<>>
  /\ \E f \in {cur[1]} : \E plan \in {relay_plan(f.request, f.endpoint)} :
         /\ plan.kind \in {"respond", "raise"}
         /\ \E resp \in {IF plan.kind = "respond" THEN plan.resp
                         ELSE relay_unexpected(f.endpoint, plan.exc)} :
                /\ ret' = <<resp>>
                /\ last' = <<Done(f, <<>>, resp, IF plan.kind = "raise" THEN <<plan.exc>> ELSE <<>>, <<>>)>>
  /\ cur' = <<>>
  /\ UNCHANGED stack
  /\ RelayOnly

\* The handler calls the admin routes in process and returns their answer
RelayInProcess ==
  /\ cur # <<>>
  /\ \E f \in {cur[1]} : \E plan \in {relay_plan(f.request, f.endpoint)} :
         /\ plan.kind = "inproc"
         /\ \E flag \in FlagFiles :
              \E got \in {AdminApp(plan.call, flag)} :
              \E resp \in {relay_finish(f.endpoint, got)} :
                  /\ ret' = <<resp>>
                  /\ last' = <<Done(f, <<plan.call>>, resp, <<>>, <<got>>)>>
  /\ cur' = <<>>
  /\ UNCHANGED stack
  /\ RelayOnly

\* The HTTP call fails: a timeout, or nothing listening
RelayHttpFail ==
  /\ cur # <<>>
  /\ \E f \in {cur[1]} : \E plan \in {relay_plan(f.request, f.endpoint)} :
         /\ plan.kind = "http"
         /\ \E e \in RequestExceptions :
              \E resp \in {relay_request_failed(f.endpoint, e)} :
                  /\ ret' = <<resp>>
                  /\ last' = <<Done(f, Attempts(plan.call), resp, <<e>>, <<>>)>>
  /\ cur' = <<>>
  /\ UNCHANGED stack
  /\ RelayOnly

\* The HTTP call is answered by something that is not a relay view
RelayHttpUpstream ==
  /\ cur # <<>>
  /\ \E f \in {cur[1]} : \E plan \in {relay_plan(f.request, f.endpoint)} :
         /\ plan.kind = "http"
         /\ Route(plan.call.path) = "other"
         /\ \E u \in UpstreamResponses :
              \E v \in (IF Follows(plan.call, u) THEN UpstreamResponses ELSE {u}) :
              \E sent \in {requests_send(plan.call, u, v)} :
              \E resp \in {relay_finish(f.endpoint, sent.response)} :
                  /\ ret' = <<resp>>
                  /\ last' = <<Done(f, sent.calls, resp, <<>>, sent.got)>>
  /\ cur' = <<>>
  /\ UNCHANGED stack
  /\ RelayOnly

\* The HTTP call reaches a relay view of the same application: the caller
\* waits, the nested handler starts on the request the call carries
RelayHttpNested ==
  /\ cur # <<>>
  /\ \E f \in {cur[1]} : \E plan \in {relay_plan(f.request, f.endpoint)} :
         /\ plan.kind = "http"
         /\ Route(plan.call.path) # "other"
         /\ stack' = Append(stack, [frame |-> f, call |-> plan.call])
         /\ cur' = <<Frame([method |-> plan.call.method, path |-> plan.call.path,
                            query |-> plan.call.query, headers |-> plan.call.headers,
                            form |-> plan.call.form, remote_addr |-> plan.call.remote_addr])>>
  /\ UNCHANGED <<ret, last>>
  /\ RelayOnly

\* A nested handler's response reaches the waiting caller, which finishes it
RelayReturn ==
  /\ ret # <<>> /\ stack # <<>>
  /\ \E top \in {stack[Len(stack)]} :
     \E v \in (IF Follows(top.call, ret[1]) THEN UpstreamResponses ELSE {ret[1]}) :
     \E sent \in {requests_send(top.call, ret[1], v)} :
     \E resp \in {relay_finish(top.frame.endpoint, sent.response)} :
         /\ ret' = <<resp>>
         /\ last' = <<Done(top.frame, sent.calls, resp, <<>>, sent.got)>>
  /\ stack' = SubSeq(stack, 1, Len(stack) - 1)
  /\ UNCHANGED cur
  /\ RelayOnly

\* The outermost handler's response goes to the client
Deliver ==
  /\ ret # <<>> /\ stack = <<>>
  /\ ret' = <<>>
  /\ last' = <<>>
  /\ UNCHANGED <<cur, stack>>
  /\ RelayOnly

NextRelay ==
  \/ ClientRequest
  \/ RelayRespond
  \/ RelayInProcess
  \/ RelayHttpFail
  \/ RelayHttpUpstream
  \/ RelayHttpNested
  \/ RelayReturn
  \/ Deliver

SpecRelay == Init /\ [][NextRelay]_vars

(***************************************************************************)
(* The admin routes reached directly: a client connects to an application   *)
(* that serves admin_bp under /admin and sends any headers it likes.        *)
(***************************************************************************)
s_private_a == <<"1", "0", ".", "0", ".", "0", ".", "5">>
s_private_b == <<"1", "7", "2", ".", "1", "6", ".", "3", ".", "4">>
s_beside_b == <<"1", "7", "2", ".", "3", "2", ".", "0", ".", "1">>

\* Addresses a connection can come from
RemoteAddrs == {s_loopback, s_private_a, s_private_b, s_beside_b, s_external}

\* Values a client may put in X-Forwarded-For
ForwardedValues ==
  {s_loopback, s_external,
   s_private_a \o <<",", " ">> \o s_external,
   s_external \o <<",", " ">> \o s_loopback}

\* The headers of a direct request, each present or absent
GateHeaders ==
  { [n \in {"X-Forwarded-For", "X-Real-IP", "True-Client-IP", "X-SSRF-Request", "X-SSRF-Depth"} |->
       CASE n = "X-Forwarded-For" -> xff
         [] n = "X-Real-IP" -> xri
         [] n = "True-Client-IP" -> tci
         [] n = "X-SSRF-Request" -> flag
         [] n = "X-SSRF-Depth" -> depth] :
      xff \in {NoneStr} \cup ForwardedValues,
      xri \in {NoneStr, s_loopback},
      tci \in {NoneStr, s_loopback},
      flag \in {NoneStr, s_true, <<"T", "r", "u", "e">>, <<>>},
      depth \in {NoneStr, <<>>, <<"0">>, <<"1">>, <<"-", "1">>, <<"a", "b", "c">>, <<"SUP2">>} }

\* What is asked of the admin routes: method, path, form
GateTargets ==
  { <<"GET", p_admin_slash, EmptyMap>>,
    <<"POST", p_admin_slash, EmptyMap>>,
    <<"GET", p_admin_logs, EmptyMap>>,
    <<"POST", p_admin_logs, [k \in {"log_file"} |-> <<"admin.log">>]>>,
    <<"POST", p_admin_logs, [k \in {"log_file"} |-> <<"flag.txt">>]>>,
    <<"GET", p_admin_settings, EmptyMap>>,
    <<"GET", p_admin, EmptyMap>>,
    <<"GET", p_admin \o <<"/", "x">>, EmptyMap>> }

GateRequests ==
  { [method |-> t[1], path |-> t[2], query |-> <<>>, headers |-> MkHeaders(h),
     form |-> t[3], remote_addr |-> a] :
      t \in GateTargets, h \in GateHeaders, a \in RemoteAddrs }

\* The request matches a route of admin_bp, method included
Routed(request) ==
  request.path \in AdminRoutes /\ request.method \in RouteMethods(request.path)

\* A step of the gate leaves the rest alone
GateOnly == UNCHANGED <<relay_vars, limiter_vars, files_vars, logs_vars, policy_vars, filter_vars, table_vars>>

\* A client sends a request straight to the admin application
GateRequest ==
  /\ admin_seen = <<>>
  /\ \E r \in GateRequests : admin_seen' = <<[request |-> r, resp |-> <<>>, granted |-> FALSE]>>
  /\ GateOnly

\* No route takes the request: Flask answers before any view is entered
GateNoRoute ==
  /\ admin_seen # <<>> /\ admin_seen[1].resp = <<>>
  /\ ~Routed(admin_seen[1].request)
  /\ \E flag \in FlagFiles :
       admin_seen' = <<[admin_seen[1] EXCEPT !.resp = <<AdminApp(admin_seen[1].request, flag)>>]>>
  /\ GateOnly

\* The decorator refuses the request
GateDeny ==
  /\ admin_seen # <<>> /\ admin_seen[1].resp = <<>>
  /\ Routed(admin_seen[1].request)
  /\ ~validate_admin_access(admin_seen[1].request)
  /\ \E flag \in FlagFiles :
       admin_seen' = <<[admin_seen[1] EXCEPT !.resp = <<AdminApp(admin_seen[1].request, flag)>>]>>
  /\ GateOnly

\* The decorator lets the request through and the view answers
GateServe ==
  /\ admin_seen # <<>> /\ admin_seen[1].resp = <<>>
  /\ Routed(admin_seen[1].request)
  /\ validate_admin_access(admin_seen[1].request)
  /\ \E flag \in FlagFiles :
       admin_seen' = <<[admin_seen[1] EXCEPT !.resp = <<AdminApp(admin_seen[1].request, flag)>>,
                                             !.granted = TRUE]>>
  /\ GateOnly

\* The response goes to the client
GateDone ==
  /\ admin_seen # <<>> /\ admin_seen[1].resp # <<>>
  /\ admin_seen' = <<>>
  /\ GateOnly

NextGate ==
  \/ GateRequest
  \/ GateNoRoute
  \/ GateDeny
  \/ GateServe
  \/ GateDone

SpecGate == Init /\ [][NextGate]_vars

(***************************************************************************)
(* The rate-limit check as a state machine: check_rate_limit, run by a      *)
(* request thread before the view.                                          *)
(***************************************************************************)
\* The clock stops at MaxTime; a check takes at most MaxDelay seconds from
\* the request's arrival to its answer
MaxTime == 63
MaxDelay == 1

\* A step of the limiter leaves the rest alone
LimiterOnly == UNCHANGED <<relay_vars, gate_vars, files_vars, logs_vars, policy_vars, filter_vars, table_vars>>

\* The timestamps in `times` that a window ending at t still covers
InWindow(times, t) == SelectSeq(times, LAMBDA x : t - x <= time_window)

\* Whether a check made at time t comes at or after the end of the block seen
Expired(o, t) == o.block_from # NoTime /\ t >= o.block_from + block_duration

\* The block seen is kept until the first check at or after its end is answered
Answer(o, t) == IF Expired(o, t) THEN [o EXCEPT !.block_from = NoTime] ELSE o

\* What a finished check leaves in rl_out
Outcome(t, status, counted) ==
  [client |-> t.ip_address, checked_at |-> t.checked_at, current_time |-> t.current_time,
   status |-> status, in_window |-> counted,
   block_from |-> rl_obs[t.ip_address].block_from]

\* time.time() moves on by a second
Elapse ==
  /\ \A th \in Threads : thr[th].pc = "idle" \/ now - thr[th].since < MaxDelay
  /\ now' = now + 1
  /\ rl_out' = <<>>
  /\ UNCHANGED <<request_history, blocked_ips, thr, rl_obs>>
  /\ LimiterOnly

\* A request arrives and thread th takes it:
\* ip_address = rate_limiter.get_client_ip()
Arrive(th) ==
  /\ \E c \in Clients :
       /\ thr[th].pc = "idle"
       /\ thr' = [thr EXCEPT ![th] = [Idle EXCEPT !.pc = "is_blocked", !.ip_address = c, !.since = now]]
  /\ rl_out' = <<>>
  /\ UNCHANGED <<now, request_history, blocked_ips, rl_obs>>
  /\ LimiterOnly

\* A second passes
Tick ==
  /\ now < MaxTime
  /\ Elapse

\* A request arrives while no other is being checked
RlArrive == \E th \in Serial : Arrive(th)

\* rate_limiter.is_blocked(ip_address) returns True: the 429 banner
RlBlocked ==
  /\ \E th \in Threads : thr[th].pc = "is_blocked" /\ \E r \in {is_blocked(blocked_ips, thr[th].ip_address, now)} :
       /\ r.ret
       /\ blocked_ips' = r.blocked_ips
       /\ rl_out' = <<Outcome([thr[th] EXCEPT !.checked_at = now], 429, 0)>>
       /\ rl_obs' = [rl_obs EXCEPT ![thr[th].ip_address] = Answer(@, now)]
       /\ thr' = [thr EXCEPT ![th] = Idle]
  /\ UNCHANGED <<now, request_history>>
  /\ LimiterOnly

\* rate_limiter.is_blocked(ip_address) returns False, after removing an
\* expired entry
RlNotBlocked ==
  /\ \E th \in Threads : thr[th].pc = "is_blocked" /\ \E r \in {is_blocked(blocked_ips, thr[th].ip_address, now)} :
       /\ ~r.ret
       /\ blocked_ips' = r.blocked_ips
       /\ thr' = [thr EXCEPT ![th].pc = "read_time", ![th].checked_at = now]
  /\ UNCHANGED <<now, request_history, rl_out, rl_obs>>
  /\ LimiterOnly

\* should_block: current_time = time.time(), before the lock is taken
RlReadTime ==
  /\ \E th \in Threads :
       /\ thr[th].pc = "read_time"
       /\ thr' = [thr EXCEPT ![th].pc = "should_block", ![th].current_time = now]
  /\ UNCHANGED <<now, request_history, blocked_ips, rl_out, rl_obs>>
  /\ LimiterOnly

\* should_block under the lock returns True: the client is blocked, the 429 banner
RlBlock ==
  /\ \E th \in Threads : thr[th].pc = "should_block" /\
     \E r \in {should_block(request_history, blocked_ips, thr[th].ip_address, thr[th].current_time)} :
     \E o \in {rl_obs[thr[th].ip_address]} :
       /\ r.ret
       /\ request_history' = r.request_history
       /\ blocked_ips' = r.blocked_ips
       /\ rl_out' = <<Outcome(thr[th], 429, Len(InWindow(o.allowed, thr[th].current_time)))>>
       /\ rl_obs' = [rl_obs EXCEPT ![thr[th].ip_address] =
                       [allowed |-> o.allowed, block_from |-> thr[th].current_time]]
       /\ thr' = [thr EXCEPT ![th] = Idle]
  /\ UNCHANGED now
  /\ LimiterOnly

\* should_block under the lock returns False: the request goes on to its view
RlAllow ==
  /\ \E th \in Threads : thr[th].pc = "should_block" /\
     \E r \in {should_block(request_history, blocked_ips, thr[th].ip_address, thr[th].current_time)} :
     \E o \in {rl_obs[thr[th].ip_address]} :
       /\ ~r.ret
       /\ request_history' = r.request_history
       /\ blocked_ips' = r.blocked_ips
       /\ rl_out' = <<Outcome(thr[th], 200, Len(InWindow(o.allowed, thr[th].current_time)))>>
       /\ rl_obs' = [rl_obs EXCEPT ![thr[th].ip_address] =
                       [Answer(o, thr[th].checked_at) EXCEPT
                          !.allowed = Append(InWindow(o.allowed, thr[th].current_time), thr[th].current_time)]]
       /\ thr' = [thr EXCEPT ![th] = Idle]
  /\ UNCHANGED now
  /\ LimiterOnly

NextLimiter ==
  \/ Tick
  \/ RlArrive
  \/ RlBlocked
  \/ RlNotBlocked
  \/ RlReadTime
  \/ RlBlock
  \/ RlAllow

SpecLimiter == Init /\ [][NextLimiter]_vars

(***************************************************************************)
(* The same check run by request threads side by side (the server is       *)
(* threaded: one thread per request), over a short stretch of time.        *)
(***************************************************************************)
\* The clock of the concurrent runs stops here
MaxRaceTime == 2

\* A second passes
RaceTick ==
  /\ now < MaxRaceTime
  /\ Elapse

\* A request arrives and any idle thread takes it
RaceArrive == \E th \in Threads : Arrive(th)

NextRace ==
  \/ RaceTick
  \/ RaceArrive
  \/ RlBlocked
  \/ RlNotBlocked
  \/ RlReadTime
  \/ RlBlock
  \/ RlAllow

SpecRace == Init /\ [][NextRace]_vars

(***************************************************************************)
(* The resolver as a state machine: a caller passes a filename, the         *)
(* filesystem holds something at the path built from it.                    *)
(***************************************************************************)
\* How many characters are inserted into a whitelisted name to make an input
MaxInsert == 1

\* Characters to insert
InsertChars == {"/", "\\", "NUL", ".", " ", ";", "\n", "x", "|", "$", "\t"}

InsertAt(s, i, c) == SubSeq(s, 1, i) \o <<c>> \o SubSeq(s, i + 1, Len(s))

RECURSIVE Inserted(_)
Inserted(k) ==
  IF k = 0 THEN {f_admin_log, f_flag_txt}
  ELSE Inserted(k - 1)
       \cup UNION { { InsertAt(s, i, c) : i \in {0, 1, 5, Len(s) - 1, Len(s)}, c \in InsertChars } :
                      s \in Inserted(k - 1) }

OtherNames ==
  { <<>>,
    <<".", ".", "/", ".", ".", "/", "e", "t", "c", "/", "p", "a", "s", "s", "w", "d">>,
    <<"f", "l", "a", "g", ".", "t", "x", "t", ";", " ", "c", "a", "t", " ", "/", "e", "t", "c", "/", "p", "a", "s", "s", "w", "d">>,
    <<".", "a", "d", "m", "i", "n", ".", "l", "o", "g">>,
    <<"a", "d", "m", "i", "n", ".", "l", "o", "g", ".", "b", "a", "k">>,
    <<"A", "D", "M", "I", "N", ".", "L", "O", "G">>,
    <<"p", "a", "s", "s", "w", "d">>,
    <<".", ".", "/", "/", "f", "l", "a", "g", ".", "t", "x", "t">>,
    <<"/", "v", "a", "r", "/", "l", "o", "g", "/", "a", "p", "p", "/", "f", "l", "a", "g", ".", "t", "x", "t">>,
    <<".", ".", ".", ".", "/", "/", "a", "d", "m", "i", "n", ".", "l", "o", "g">>,
    <<"s", "y", "s", "t", "NUL", "e", "m", ".", "l", "o", "g">>,
    <<"a", "c", "c", "e", "s", "s", ".", "l", "o", "g", "\n">>,
    <<"e", "r", "r", "o", "r", ".", "l", "o", "g", "/">>,
    <<"\\", "e", "r", "r", "o", "r", ".", "l", "o", "g">>,
    <<"a", "d", "m", "i", "n", ".", ".", "l", "o", "g">>,
    <<"a", "d", "m", "i", "n", "_", "l", "o", "g", "-", "1">> }

FileInputs == ALLOWED_LOG_FILES \cup Inserted(MaxInsert) \cup OtherNames

\* A step of the resolver leaves the rest alone
FilesOnly == UNCHANGED <<relay_vars, gate_vars, limiter_vars, logs_vars, policy_vars, filter_vars, table_vars>>

\* validate_file_path is called
ResolveCall ==
  /\ resolving = <<>>
  /\ \E f \in FileInputs : resolving' = <<[input |-> f, done |-> FALSE, safe_filename |-> NoneStr, kind |-> "", result |-> NoPath]>>
  /\ FilesOnly

\* validate_file_path returns None
ResolveNone ==
  /\ resolving # <<>> /\ ~resolving[1].done
  /\ \E kind \in FileKinds : \E r \in {validate_file_path(resolving[1].input, kind)} :
       /\ r = NoPath
       /\ resolving' = <<[resolving[1] EXCEPT !.done = TRUE, !.kind = kind, !.result = r,
                                               !.safe_filename = sanitize_filename(resolving[1].input)]>>
  /\ FilesOnly

\* validate_file_path returns a path
ResolvePath ==
  /\ resolving # <<>> /\ ~resolving[1].done
  /\ \E kind \in FileKinds : \E r \in {validate_file_path(resolving[1].input, kind)} :
       /\ r # NoPath
       /\ resolving' = <<[resolving[1] EXCEPT !.done = TRUE, !.kind = kind, !.result = r,
                                               !.safe_filename = sanitize_filename(resolving[1].input)]>>
  /\ FilesOnly

\* The caller has its answer
ResolveReturn ==
  /\ resolving # <<>> /\ resolving[1].done
  /\ resolving' = <<>>
  /\ FilesOnly

NextFiles ==
  \/ ResolveCall
  \/ ResolveNone
  \/ ResolvePath
  \/ ResolveReturn

SpecFiles == Init /\ [][NextFiles]_vars

(***************************************************************************)
(* The two log views as a state machine: GET /logs/logs?file=<name> and    *)
(* the view admin_logs behind the gate.  Under each name in the allowed    *)
(* directory the filesystem holds a regular file, nothing, a directory, a  *)
(* link to a file outside the directory or a link to a whitelisted file.   *)
(***************************************************************************)
\* A step of the log views leaves the rest alone
LogsOnly == UNCHANGED <<relay_vars, gate_vars, limiter_vars, files_vars, policy_vars, filter_vars, table_vars>>

\* The values of the file parameter
LogsInputs == FileInputs \cup {NoneStr}

\* The values of the log_file field of a POST to /admin/logs
AdminLogInputs ==
  { <<>>, <<"admin.log">>, <<"error.log">>, <<"access.log">>, <<"system.log">>, <<"flag.txt">>,
    <<"cat", "/var/flag/flag.txt">>, <<"admin.log;", "cat", "/etc/passwd">>, <<"../../etc/passwd">>,
    <<"/etc/passwd", "x;flag.txt">>, <<"/etc/shadow">> }

AdminLogRequests ==
  { [method |-> m, form |-> f] :
      m \in {"GET", "POST"},
      f \in {EmptyMap} \cup { [k \in {"log_file"} |-> v] : v \in AdminLogInputs } }

\* What open() and f.tell() can do for the path validate_file_path gives
Openings(safe_path) == IF safe_path = NoPath THEN {"file"} ELSE OpenOutcomes
Sizes(safe_path, opening) == IF safe_path = NoPath \/ opening # "file" THEN {0} ELSE FileSizes

LogsSeen(file, kind, opening, file_size, r) ==
  [endpoint |-> "logs", file |-> file, kind |-> kind, opening |-> opening, file_size |-> file_size,
   resp |-> r.resp, read |-> r.read]

\* GET /logs/logs answers with the content of a file
LogsServe ==
  /\ logs_seen = <<>>
  /\ \E file \in LogsInputs : \E kind \in FileKinds :
     \E safe_path \in {validate_file_path(OrDefault(file, f_system_log), kind)} :
     \E opening \in Openings(safe_path) : \E file_size \in Sizes(safe_path, opening) :
     \E r \in {logs(file, kind, opening, file_size)} :
       /\ r.resp.status = 200
       /\ logs_seen' = <<LogsSeen(file, kind, opening, file_size, r)>>
  /\ UNCHANGED logs_denied
  /\ LogsOnly

\* GET /logs/logs answers with a denial
LogsDeny ==
  /\ logs_seen = <<>>
  /\ \E file \in LogsInputs : \E kind \in FileKinds :
     \E safe_path \in {validate_file_path(OrDefault(file, f_system_log), kind)} :
     \E opening \in Openings(safe_path) : \E file_size \in Sizes(safe_path, opening) :
     \E r \in {logs(file, kind, opening, file_size)} :
       /\ r.resp.status # 200
       /\ logs_seen' = <<LogsSeen(file, kind, opening, file_size, r)>>
       /\ logs_denied' = logs_denied \cup {[status |-> r.resp.status, body |-> r.resp.body]}
  /\ LogsOnly

\* The view admin_logs runs for a request the gate has let through
AdminLogsView ==
  /\ logs_seen = <<>>
  /\ \E request \in AdminLogRequests : \E flag \in FlagFiles :
       logs_seen' = <<[endpoint |-> "admin_logs", request |-> request, flag |-> flag,
                       resp |-> admin_logs(request, flag),
                       read |-> admin_logs_reads(request, flag)]>>
  /\ UNCHANGED logs_denied
  /\ LogsOnly

\* The caller has its answer
LogsReturn ==
  /\ logs_seen # <<>>
  /\ logs_seen' = <<>>
  /\ UNCHANGED logs_denied
  /\ LogsOnly

NextLogs ==
  \/ LogsServe
  \/ LogsDeny
  \/ AdminLogsView
  \/ LogsReturn

SpecLogs == Init /\ [][NextLogs]_vars

(***************************************************************************)
(* check_ssrf_access called for a request                                  *)
(***************************************************************************)
PolicyOnly == UNCHANGED <<relay_vars, gate_vars, limiter_vars, files_vars, logs_vars, filter_vars, table_vars>>

UserAgents ==
  { NoneStr, <<"M","o","z","i","l","l","a">>,
    s_python_requests \o <<"/","2">>,
    <<"P","y","t","h","o","n","-","R","e","q","u","e","s","t","s">> }

AccessRequests ==
  { [headers |-> MkHeaders([n \in {"X-SSRF-Request", "X-SSRF-Depth", "User-Agent"} |->
                              CASE n = "X-SSRF-Request" -> flag
                                [] n = "X-SSRF-Depth" -> depth
                                [] n = "User-Agent" -> agent]),
     shutdown |-> shutdown] :
      flag \in {NoneStr, s_true, <<"T", "r", "u", "e">>, <<>>},
      depth \in {NoneStr, <<>>, <<"0">>, <<"1">>, <<"1", "2">>, <<"-", "1">>, <<"a", "b", "c">>, <<"SUP2">>},
      agent \in UserAgents,
      shutdown \in {NoneStr, <<"f","u","n","c">>} }

\* check_ssrf_access returns True
AccessAllow ==
  /\ access_seen = <<>>
  /\ \E r \in AccessRequests :
       /\ check_ssrf_access(r)
       /\ access_seen' = <<[request |-> r, allowed |-> TRUE]>>
  /\ PolicyOnly

\* check_ssrf_access returns False
AccessDeny ==
  /\ access_seen = <<>>
  /\ \E r \in AccessRequests :
       /\ ~check_ssrf_access(r)
       /\ access_seen' = <<[request |-> r, allowed |-> FALSE]>>
  /\ PolicyOnly

\* The caller has its answer
AccessDone ==
  /\ access_seen # <<>>
  /\ access_seen' = <<>>
  /\ PolicyOnly

NextPolicy ==
  \/ AccessAllow
  \/ AccessDeny
  \/ AccessDone

SpecPolicy == Init /\ [][NextPolicy]_vars

(***************************************************************************)
(* SecurityFilter.validate_url called for a url                            *)
(***************************************************************************)
FilterOnly == UNCHANGED <<relay_vars, gate_vars, limiter_vars, files_vars, logs_vars, policy_vars, table_vars>>

s_log_file == <<"l", "o", "g", "_", "f", "i", "l", "e">>
s_debug == <<"d", "e", "b", "u", "g">>

UrlPaths ==
  { <<>>, <<"/">>, p_admin, p_admin_slash, p_admin_logs, p_admin_settings, p_logs,
    p_admin_logs \o <<"/">>, p_admin \o <<"/", ".", ".", "/", "e", "t", "c">>,
    <<"/", "A", "d", "m", "i", "n">>, p_fetch_next }

UrlQueries ==
  { <<>>,
    s_log_file \o <<"=">> \o f_admin_log,
    s_log_file \o <<"=">>,
    s_debug \o <<"=", "1">>,
    s_debug \o <<"=">>,
    s_debug,
    s_log_file \o <<"=">> \o f_admin_log \o <<"&">> \o s_debug \o <<"=", "1">>,
    s_log_file \o <<"=">> \o f_admin_log \o <<"&">> \o s_debug \o <<"=">>,
    s_log_file \o <<"=", "a", ";", " ", "i", "d">>,
    s_log_file \o <<"=", "a", "|", "|", "b">>,
    s_log_file \o <<"=", "/", "b", "i", "n", "/", "s", "h">>,
    s_debug \o <<"=">> \o <<"&">> \o s_log_file \o <<"=", "x", "|", "s", "h">> }

UrlInputs ==
  { Url(s_http, host, path \o (IF query = <<>> THEN <<>> ELSE <<"?">> \o query)) :
      host \in {s_admin, s_localhost}, path \in UrlPaths, query \in UrlQueries }

\* validate_url returns (True, "")
ValidateAccept ==
  /\ validated = <<>>
  /\ \E url \in UrlInputs : \E r \in {validate_url(url)} :
       /\ r.ok
       /\ validated' = <<[url |-> url, ok |-> r.ok, reason |-> r.reason]>>
  /\ FilterOnly

\* validate_url returns (False, reason)
ValidateReject ==
  /\ validated = <<>>
  /\ \E url \in UrlInputs : \E r \in {validate_url(url)} :
       /\ ~r.ok
       /\ validated' = <<[url |-> url, ok |-> r.ok, reason |-> r.reason]>>
  /\ FilterOnly

\* The caller has its answer
ValidateDone ==
  /\ validated # <<>>
  /\ validated' = <<>>
  /\ FilterOnly

NextFilter ==
  \/ ValidateAccept
  \/ ValidateReject
  \/ ValidateDone

SpecFilter == Init /\ [][NextFilter]_vars

(***************************************************************************)
(* RateLimiter.is_blocked called on a limiter that tracks several clients:  *)
(* the tables as they are when the lock is taken, and as the call leaves    *)
(* them.                                                                    *)
(***************************************************************************)
\* A step of the table leaves the rest alone
TableOnly == UNCHANGED <<relay_vars, gate_vars, limiter_vars, files_vars, logs_vars, policy_vars, filter_vars>>

\* The clients the limiter may hold entries for, and the clients asked about
TableClients == {"c1", "c2"}
AskedClients == TableClients \cup {"c3"}

\* time.time() at the call, and the unblock times in the table (a block set
\* at time t ends at t + block_duration)
CallTimes == {block_duration, block_duration + 1, block_duration + 2}
UnblockTimes == {block_duration, block_duration + 1, block_duration + 2}

\* self.blocked_ips: some clients with an unblock time each
BlockedTables == UNION { [S -> UnblockTimes] : S \in SUBSET TableClients }

\* self.request_history: some clients with their timestamps, oldest first
HistoryTables ==
  UNION { [S -> {<<>>, <<block_duration>>, <<block_duration - 1, block_duration>>}] : S \in SUBSET TableClients }

\* What a finished is_blocked call leaves in table_call; the call never
\* touches self.request_history
IsBlockedCall(ip_address, t, blocked, history, r) ==
  [ip_address |-> ip_address, time |-> t,
   blocked_before |-> blocked, history_before |-> history,
   ret |-> r.ret, blocked_after |-> r.blocked_ips, history_after |-> history]

\* is_blocked returns True
IsBlockedTrue ==
  /\ table_call = <<>>
  /\ \E ip_address \in AskedClients : \E t \in CallTimes :
     \E blocked \in BlockedTables : \E history \in HistoryTables :
     \E r \in {is_blocked(blocked, ip_address, t)} :
       /\ r.ret
       /\ table_call' = <<IsBlockedCall(ip_address, t, blocked, history, r)>>
  /\ TableOnly

\* is_blocked returns False
IsBlockedFalse ==
  /\ table_call = <<>>
  /\ \E ip_address \in AskedClients : \E t \in CallTimes :
     \E blocked \in BlockedTables : \E history \in HistoryTables :
     \E r \in {is_blocked(blocked, ip_address, t)} :
       /\ ~r.ret
       /\ table_call' = <<IsBlockedCall(ip_address, t, blocked, history, r)>>
  /\ TableOnly

\* The caller goes on
IsBlockedDone ==
  /\ table_call # <<>>
  /\ table_call' = <<>>
  /\ TableOnly

NextTable ==
  \/ IsBlockedTrue
  \/ IsBlockedFalse
  \/ IsBlockedDone

SpecTable == Init /\ [][NextTable]_vars

(***************************************************************************)
(* What the properties below read off a finished handler (an entry of      *)
(* `last`)                                                                 *)
(***************************************************************************)
UrlOf(d) == OrDefault(args_get(d.request.query, s_url), <<>>)
DepthTextOf(d) == OrDefault(HeaderGet(d.request.headers, "X-SSRF-Depth"), <<"0">>)
HostOf(d) == hostname(urlparse(UrlOf(d)))
DepthAtLeast(d, n) == IntOk(DepthTextOf(d)) /\ int(DepthTextOf(d)) >= n
Finished == { last[i] : i \in 1..Len(last) }

\* C1, as the specification states it: every request to /fetch-next whose url
\* names a host outside {localhost, 127.0.0.1, admin} is answered 400 without
\* any downstream call, whatever its X-SSRF-Depth header and form
C1_BadHostIs400 ==
  \A d \in Finished :
    (d.endpoint = "fetch_next" /\ UrlOf(d) # <<>> /\ HostOf(d) \notin allowed_hosts)
      => (d.resp.status = 400 /\ d.calls = <<>>)

\* C2, as the specification states it: every relay request with
\* X-SSRF-Depth >= 2, with or without a url parameter, is answered 403 without
\* any downstream call
C2_DepthAlways403 ==
  \A d \in Finished :
    DepthAtLeast(d, MaxSsrfDepth) => (d.resp.status = 403 /\ d.calls = <<>>)

\* C2, amended: every relay request that has a url parameter and whose
\* X-SSRF-Depth header reads as an integer >= 2 is answered 403 without any
\* downstream call, whatever the method, the host and the form
C2_DepthLimit ==
  \A d \in Finished :
    (UrlOf(d) # <<>> /\ DepthAtLeast(d, MaxSsrfDepth))
      => (d.resp.status = 403 /\ d.calls = <<>>)

\* A POST naming an allowed host, with a form and depth 2, has been refused
C2_Witness ==
  \E d \in Finished :
    /\ d.request.method = "POST"
    /\ DOMAIN d.request.form # {}
    /\ HostOf(d) = s_admin
    /\ DepthTextOf(d) = <<"2">>
    /\ d.resp.status = 403
    /\ d.calls = <<>>

(***************************************************************************)
(* What the properties below read off a request sent straight to the admin *)
(* routes (an entry of `admin_seen`)                                       *)
(***************************************************************************)
Answered == { admin_seen[i] : i \in { j \in 1..Len(admin_seen) : admin_seen[j].resp # <<>> } }

\* The connection comes from outside loopback and the private ranges
ExternalConnection(request) == ~is_internal_ip(request.remote_addr)

\* X-SSRF-Request is not exactly 'true', or X-SSRF-Depth is absent
LacksProvenance(request) ==
  \/ HeaderGet(request.headers, "X-SSRF-Request") # s_true
  \/ HeaderGet(request.headers, "X-SSRF-Depth") = NoneStr

\* C3, as the specification states it: the gate never lets through a request
\* whose connection comes from an external address, whatever headers the
\* request sets
C3_ExternalNeverGranted ==
  \A g \in Answered :
    ExternalConnection(g.request) => (~g.granted /\ g.resp[1].status # 200)

\* C4: a request to one of the three admin routes that lacks the provenance
\* headers is answered by the gate's 403 JSON (error and message) and is not
\* served, from whatever address it comes, internal ones included
C4_NoProvenanceDenied ==
  \A g \in Answered :
    (Routed(g.request) /\ LacksProvenance(g.request))
      => (g.resp[1] = AccessDenied /\ g.resp[1].status = 403 /\ ~g.granted)

\* A POST to /admin/logs from loopback, with X-SSRF-Request: true but no
\* X-SSRF-Depth and no proxy header, has been refused
C4_Witness ==
  \E g \in Answered :
    /\ g.request.remote_addr = s_loopback
    /\ g.request.path = p_admin_logs /\ g.request.method = "POST"
    /\ DOMAIN g.request.headers = {"X-SSRF-Request"}
    /\ g.request.headers["X-SSRF-Request"] = s_true
    /\ g.resp[1] = AccessDenied

(***************************************************************************)
(* What the properties below read off a finished rate-limit check (an      *)
(* entry of `rl_out`): when is_blocked ran (checked_at), the current_time   *)
(* should_block used (NoTime when it was not reached), how many of the      *)
(* client's earlier allowed requests lie in the window ending at            *)
(* current_time (in_window), and the current_time of the request that       *)
(* caused the client's block, kept until the first check at or after the    *)
(* block's end (block_from).                                                *)
(***************************************************************************)
Checked == { rl_out[i] : i \in 1..Len(rl_out) }

\* C5: for one client whose requests come one after another, a request that
\* makes more than max_requests requests fall in the trailing window is
\* answered 429; every later request checked before that request's time plus
\* block_duration is answered 429; the first request checked at or after that
\* time is let through
C5_BlockThenExpiry ==
  \A r \in Checked :
    /\ (r.current_time # NoTime /\ r.in_window + 1 > max_requests) => r.status = 429
    /\ (r.block_from # NoTime /\ r.checked_at < r.block_from + block_duration) => r.status = 429
    /\ (r.block_from # NoTime /\ r.checked_at >= r.block_from + block_duration) => r.status = 200

\* The client was blocked, and its first request at the very second the block
\* ends has been let through
C5_Witness ==
  \E r \in Checked :
    /\ r.block_from # NoTime
    /\ r.checked_at = r.block_from + block_duration
    /\ r.status = 200

(***************************************************************************)
(* What the properties below read off a finished validate_file_path call   *)
(***************************************************************************)
Resolved == { resolving[i] : i \in { j \in 1..Len(resolving) : resolving[j].done } }

Separators == {"/", "\\", "NUL"}

\* C6, as the specification states it: every input that is not exactly a
\* whitelisted name resolves to null, inputs with path separators or null
\* bytes included
C6_ExactWhitelistOnly ==
  \A r \in Resolved : r.input \notin ALLOWED_LOG_FILES => r.result = NoPath

\* C6, amended: every input that is not a whitelisted name once its '/', '\'
\* and null characters are taken out resolves to null; this covers every
\* input with '..', a leading dot or any other character outside the names
C6_WhitelistAfterStripping ==
  \A r \in Resolved :
    RemoveChars(r.input, Separators) \notin ALLOWED_LOG_FILES => r.result = NoPath

\* ../../etc/passwd has been resolved to null where the path holds a regular file
C6_Witness ==
  \E r \in Resolved :
    /\ r.input = <<".", ".", "/", ".", ".", "/", "e", "t", "c", "/", "p", "a", "s", "s", "w", "d">>
    /\ r.kind = "regular"
    /\ r.result = NoPath

\* The depth the relay read from a finished handler's request
InboundDepth(d) == int(DepthTextOf(d))

\* C7, as the specification states it: every downstream request of the
\* relay, in process or over HTTP, carries X-SSRF-Request: true and
\* X-SSRF-Depth one above the inbound depth, and no more than two relay
\* handlers are ever nested
C7_DepthOnEveryHop ==
  /\ \A d \in Finished : \A i \in 1..Len(d.calls) :
       /\ HeaderGet(d.calls[i].headers, "X-SSRF-Request") = s_true
       /\ HeaderGet(d.calls[i].headers, "X-SSRF-Depth") = str(InboundDepth(d) + 1)
  /\ Len(stack) + Len(cur) <= MaxSsrfDepth

\* C8: a POST to /fetch-next?url=http://admin/logs with form
\* {log_file: admin.log} and inbound depth 0 or 1 (no header is 0) makes one
\* in-process POST to /admin/logs from loopback, and the answer is 200 with
\* the admin.log sample in the body, nothing of it replaced by the filter
C8_AdminLogsEndToEnd ==
  \A d \in Finished :
    ( /\ d.endpoint = "fetch_next"
      /\ d.request.method = "POST"
      /\ UrlOf(d) = Url(s_http, s_admin, p_logs)
      /\ d.request.form = [k \in {"log_file"} |-> <<"admin.log">>]
      /\ IntOk(DepthTextOf(d)) /\ InboundDepth(d) \in 0..(MaxSsrfDepth - 1) )
    => ( /\ Len(d.calls) = 1
         /\ d.calls[1].kind = "inproc"
         /\ d.calls[1].method = "POST"
         /\ d.calls[1].path = p_admin_logs
         /\ d.calls[1].remote_addr = s_loopback
         /\ validate_admin_access(d.calls[1])
         /\ d.resp.status = 200
         /\ ContainsWords(d.resp.body, admin_log_sample) )

\* Such a POST, carrying X-SSRF-Depth: 1, has been answered 200 with the
\* admin.log sample
C8_Witness ==
  \E d \in Finished :
    /\ d.endpoint = "fetch_next"
    /\ d.request.method = "POST"
    /\ UrlOf(d) = Url(s_http, s_admin, p_logs)
    /\ d.request.form = [k \in {"log_file"} |-> <<"admin.log">>]
    /\ DepthTextOf(d) = <<"1">>
    /\ d.resp.status = 200
    /\ ContainsWords(d.resp.body, admin_log_sample)

\* C9, as the specification states it: the relay makes no downstream call
\* for a url whose path is outside the Security Filter's allowed paths or
\* that has a query parameter outside its allowed parameters
C9_OnlyAllowedPathsForwarded ==
  \A d \in Finished :
    d.calls # <<>>
      => (path_allowed(urlparse(UrlOf(d))) /\ query_params_allowed(urlparse(UrlOf(d))))

\* C10, as the specification states it: when the downstream call fails or
\* another exception is raised, the answer is 500 and its body holds nothing
\* of the exception's text
C10_GenericFailureMessage ==
  \A d \in Finished :
    d.exc # <<>> => (d.resp.status = 500 /\ ~ContainsWords(d.resp.body, d.exc[1]))

(***************************************************************************)
(* The rate-limit check run by several threads                             *)
(***************************************************************************)
\* The client of a check has an entry in blocked_ips that has not expired
BlockedNow(client) == client \in DOMAIN blocked_ips /\ now < blocked_ips[client]

\* C11: under any interleaving of concurrent requests of one client, no
\* request is let through to its handler while the client has an unexpired
\* entry in the blocked table; a request racing with the one that triggers
\* the block is not counted against the cleared history and allowed
C11_NoAllowWhileBlocked ==
  \A r \in Checked : r.status = 200 => ~BlockedNow(r.client)

\* A deque of timestamps is non-decreasing from front to back
Ordered(request_times) ==
  \A i \in 1..(Len(request_times) - 1) : request_times[i] <= request_times[i + 1]

\* C19: in every reachable state of the rate limiter, concurrent should_block
\* calls for one client included, each client's request history is ordered
\* by timestamp, non-decreasing from front to back
C19_HistoryOrdered ==
  \A c \in DOMAIN request_history : Ordered(request_history[c])

(***************************************************************************)
(* The relay without a url                                                 *)
(***************************************************************************)
\* C12: every request to the relay that has no url parameter, or an empty
\* one, GET or POST, is answered 400 with a JSON error and no downstream call
C12_MissingUrlIs400 ==
  \A d \in Finished :
    UrlOf(d) = <<>>
      => /\ d.resp.status = 400
         /\ d.resp.ctype = JSON
         /\ ContainsWords(d.resp.body, <<"error">>)
         /\ d.calls = <<>>

(***************************************************************************)
(* What the properties below read off a finished request to a log view     *)
(***************************************************************************)
LogsFinished == { logs_seen[i] : i \in 1..Len(logs_seen) }

\* C13: GET /logs/logs?file=<name> gives the same status and the same body
\* for every denial: a name that is not on the whitelist cannot be told from
\* a whitelisted name whose file is missing, too large or unreadable
C13_DenialsAlike ==
  \A a \in logs_denied : \A b \in logs_denied : a = b

\* The files the whitelist names in the allowed directory
WhitelistedPaths == { [dir |-> ALLOWED_LOG_DIR, name |-> n] : n \in ALLOWED_LOG_FILES }

Whitespace == {" ", "\t", "\n", "\r"}
HasChar(s, chars) == \E i \in 1..Len(s) : s[i] \in chars

\* C14: sanitize_filename returns its input unchanged for every whitelisted
\* name, returns null for every input containing '..', whitespace or a shell
\* metacharacter, returns null or a member of the whitelist for every input,
\* and applied to its own non-null result returns that result
C14_SanitizeAlgebra ==
  \A r \in Resolved :
    /\ r.input \in ALLOWED_LOG_FILES => r.safe_filename = r.input
    /\ (Contains(r.input, <<".", ".">>) \/ HasChar(r.input, Whitespace) \/ HasChar(r.input, dangerous_chars))
         => (r.safe_filename = NoneStr /\ sanitize_command_input(r.input) = NoneStr)
    /\ r.safe_filename = NoneStr \/ r.safe_filename \in ALLOWED_LOG_FILES
    /\ r.safe_filename # NoneStr => sanitize_filename(r.safe_filename) = r.safe_filename

\* A whitelisted name followed by a newline passed the pattern and was
\* sanitized to null
C14_Witness ==
  \E r \in Resolved :
    /\ r.input = <<"a", "c", "c", "e", "s", "s", ".", "l", "o", "g", "\n">>
    /\ SafeMatch(r.input)
    /\ r.safe_filename = NoneStr

(***************************************************************************)
(* The gate and a malformed X-SSRF-Depth                                   *)
(***************************************************************************)
\* The text reads as a non-negative integer
NonNegativeInteger(text) == IntOk(text) /\ int(text) >= 0

\* C18: a request to an admin route whose X-SSRF-Depth header is present but
\* is not a non-negative integer is treated like a request without the
\* header: the gate denies it with 403 and no exception or 500 results
C18_MalformedDepthDenied ==
  \A g \in Answered :
    /\ g.resp[1].status # 500
    /\ (/\ Routed(g.request)
        /\ HeaderGet(g.request.headers, "X-SSRF-Depth") # NoneStr
        /\ ~NonNegativeInteger(HeaderGet(g.request.headers, "X-SSRF-Depth")))
         => (g.resp[1] = AccessDenied /\ g.resp[1].status = 403 /\ ~g.granted)

(***************************************************************************)
(* The header-provenance check                                             *)
(***************************************************************************)
AccessChecked == { access_seen[i] : i \in 1..Len(access_seen) }

\* The request is an in-process direct dispatch, as check_ssrf_access tells it
InProcess(request) == request.shutdown # NoneStr

\* C15: check_ssrf_access allows a request that is not an in-process direct
\* dispatch if and only if X-SSRF-Request equals 'true' and X-SSRF-Depth is
\* present and is a non-negative integer; a request whose X-SSRF-Depth is
\* present but malformed is denied
C15_PolicyB ==
  \A c \in AccessChecked :
    ~InProcess(c.request)
      => (c.allowed <=> /\ HeaderGet(c.request.headers, "X-SSRF-Request") = s_true
                        /\ HeaderGet(c.request.headers, "X-SSRF-Depth") # NoneStr
                        /\ NonNegativeInteger(HeaderGet(c.request.headers, "X-SSRF-Depth")))

(***************************************************************************)
(* The downstream calls of one handler                                     *)
(***************************************************************************)
\* C16: each request the relay handles causes at most one downstream call,
\* in process or over HTTP: a call that fails or times out is not retried,
\* and a redirect answering the outbound HTTP call is returned to the caller
\* and not followed
C16_OneCallNoRetry ==
  \A d \in Finished :
    /\ Len(d.calls) <= 1
    /\ (d.calls # <<>> /\ d.exc # <<>>) => (Len(d.calls) = 1 /\ d.resp.status = 500)
    /\ (d.calls # <<>> /\ d.calls[1].kind = "http" /\ d.got # <<>> /\ d.got[1].status \in RedirectCodes)
         => (Len(d.got) = 1 /\ d.resp.status = d.got[1].status /\ d.resp.body = d.got[1].body)

\* The outbound HTTP call of /post/1/fetch-next was answered 302, and the
\* handler returned that 302 after the one call
C16_Witness ==
  \E d \in Finished :
    /\ d.endpoint = "post_fetch_next"
    /\ Len(d.calls) = 1 /\ d.calls[1].kind = "http"
    /\ d.got # <<>> /\ d.got[1].status = 302
    /\ d.resp.status = 302

(***************************************************************************)
(* validate_url                                                            *)
(***************************************************************************)
Validated == { validated[i] : i \in 1..Len(validated) }

\* Every key that appears in a query string, with or without a value
KeysIn(query) ==
  { PairKey(Split(query, "&")[i]) : i \in { k \in 1..Len(Split(query, "&")) : Split(query, "&")[k] # <<>> } }

\* C20: validate_url accepts a url only if its path is an exact member of
\* the allowed paths and every query parameter key that appears in its query
\* string, keys given with an empty value included, is an allowed parameter;
\* otherwise it returns (False, reason)
C20_AcceptsOnlyAllowed ==
  \A v \in Validated :
    /\ v.ok => /\ urlparse(v.url).path \in ALLOWED_PATHS
               /\ KeysIn(urlparse(v.url).query) \subseteq ALLOWED_QUERY_PARAMS
    /\ ~v.ok => v.reason # <<>>

(***************************************************************************)
(* The two relays compared                                                  *)
(***************************************************************************)
\* What the relay view `endpoint` returns for the request of the finished run
\* d when its downstream call behaves as d's did: the same exception raised,
\* or the same response received
SameDownstream(endpoint, d) ==
  IF d.calls = <<>>
  THEN (IF relay_plan(d.request, endpoint).kind = "raise"
        THEN relay_unexpected(endpoint, relay_plan(d.request, endpoint).exc)
        ELSE relay_plan(d.request, endpoint).resp)
  ELSE IF d.exc # <<>> THEN relay_request_failed(endpoint, d.exc[1])
  ELSE relay_finish(endpoint, d.got[Len(d.got)])

\* C21: for every request and the same downstream behaviour, /fetch-next and
\* /post/<id>/fetch-next return the same status code, content type and body
C21_RelaysAgree ==
  \A d \in Finished :
    /\ SameDownstream("fetch_next", d).status = SameDownstream("post_fetch_next", d).status
    /\ SameDownstream("fetch_next", d).ctype = SameDownstream("post_fetch_next", d).ctype
    /\ SameDownstream("fetch_next", d).body = SameDownstream("post_fetch_next", d).body

(***************************************************************************)
(* is_blocked and the tables                                                *)
(***************************************************************************)
TableCalls == { table_call[i] : i \in 1..Len(table_call) }

\* The client has an entry whose unblock time is later than the time of the call
EntryLater(k) == k.ip_address \in DOMAIN k.blocked_before /\ k.blocked_before[k.ip_address] > k.time

\* The client has an entry whose unblock time is not later than the time of the call
EntryExpired(k) == k.ip_address \in DOMAIN k.blocked_before /\ k.blocked_before[k.ip_address] <= k.time

\* C22: is_blocked(c) returns true exactly when c has an entry in the blocked
\* table whose unblock time is later than the current time; when the entry
\* has expired the call removes it and returns false; in every case the
\* entries of all other clients and every request history are left as they were
C22_IsBlockedFrame ==
  \A k \in TableCalls :
    /\ k.ret <=> EntryLater(k)
    /\ EntryExpired(k) => (~k.ret /\ k.ip_address \notin DOMAIN k.blocked_after)
    /\ ~EntryExpired(k) => k.blocked_after = k.blocked_before
    /\ \A c \in (DOMAIN k.blocked_before) \ {k.ip_address} :
         c \in DOMAIN k.blocked_after /\ k.blocked_after[c] = k.blocked_before[c]
    /\ (DOMAIN k.blocked_after) \subseteq (DOMAIN k.blocked_before)
    /\ k.history_after = k.history_before

\* The entry of the client asked about had expired and was removed, while
\* another client's expired entry and a request history stayed in place
C22_Witness ==
  \E k \in TableCalls :
    /\ EntryExpired(k) /\ ~k.ret
    /\ \E c \in (DOMAIN k.blocked_after) : k.blocked_after[c] <= k.time
    /\ \E c \in DOMAIN k.history_after : k.history_after[c] # <<>>

(***************************************************************************)
(* Where the relay's downstream calls go                                    *)
(***************************************************************************)
\* The netloc of the url the finished run was given has a port or userinfo
NetlocDecorated(d) ==
  \/ HasChar(urlparse(UrlOf(d)).netloc, {"@"})
  \/ HasChar(urlparse(UrlOf(d)).netloc, {":"})

\* C23: every outbound HTTP call of the relay goes to 127.0.0.1 port 80,
\* whatever port, userinfo or allowed hostname the url has; a url whose
\* hostname is admin is served by in-process dispatch to a path under /admin,
\* never by an outbound HTTP call
C23_CallsStayOnLoopback ==
  \A d \in Finished :
    /\ \A i \in 1..Len(d.calls) :
         d.calls[i].kind = "http"
           => /\ urlparse(d.calls[i].url).scheme = s_http
              /\ urlparse(d.calls[i].url).netloc = s_loopback \o <<":", "8", "0">>
    /\ HostOf(d) = s_admin
         => \A i \in 1..Len(d.calls) :
              d.calls[i].kind = "inproc" /\ StartsWith(d.calls[i].path, p_admin)

\* A url that names localhost with userinfo and port 8080 was fetched by an
\* HTTP call
C23_Witness ==
  \E d \in Finished :
    /\ NetlocDecorated(d)
    /\ HostOf(d) = s_localhost
    /\ Len(d.calls) = 1 /\ d.calls[1].kind = "http"
    /\ d.got # <<>>

(***************************************************************************)
(* What should_block leaves behind                                          *)
(***************************************************************************)
\* Thread th leaves the locked section of should_block in this step
ShouldBlockReturns(th) == thr[th].pc = "should_block" /\ thr'[th].pc = "idle"

\* C24: after every should_block call returns, under any interleaving, the
\* called client's request history holds at most max_requests timestamps;
\* whenever should_block returns true the client's history is empty and its
\* entry in the blocked table is the call's timestamp plus block_duration
C24_ShouldBlockLeaves ==
  [][\A th \in Threads :
       ShouldBlockReturns(th)
         => /\ Len(history_get(request_history', thr[th].ip_address)) <= max_requests
            /\ \A r \in { rl_out'[i] : i \in 1..Len(rl_out') } :
                 r.status = 429
                   => /\ history_get(request_history', thr[th].ip_address) = <<>>
                      /\ thr[th].ip_address \in DOMAIN blocked_ips'
                      /\ blocked_ips'[thr[th].ip_address] = thr[th].current_time + block_duration]_vars

\* should_block has just returned true for a call whose timestamp was read a
\* second before it took the lock, while another thread is inside its own
\* check of the same client
C24_Witness ==
  \E r \in Checked :
    /\ r.status = 429 /\ r.current_time # NoTime
    /\ r.current_time < now
    /\ blocked_ips[r.client] = r.current_time + block_duration
    /\ history_get(request_history, r.client) = <<>>
    /\ \E th \in Threads : thr[th].pc \in {"read_time", "should_block"} /\ thr[th].ip_address = r.client

(***************************************************************************)
(* The relay's in-process dispatch at the admin gate                        *)
(***************************************************************************)
\* The request the test client delivers for an in-process call
Dispatched(call) ==
  [method |-> call.method, path |-> call.path, query |-> call.query,
   headers |-> call.headers, form |-> call.form, remote_addr |-> call.remote_addr]

\* C25: every in-process admin dispatch of the relay is accepted by the admin
\* gate: for every inbound request that passes the relay's own checks, with
\* any inbound X-SSRF-Depth below 2, negative values included, the dispatched
\* request comes from loopback with headers validate_admin_access accepts,
\* and the relay never returns the gate's 403
C25_DispatchPassesGate ==
  \A d \in Finished : \A i \in 1..Len(d.calls) :
    d.calls[i].kind = "inproc"
      => /\ d.calls[i].remote_addr = s_loopback
         /\ validate_admin_access(Dispatched(d.calls[i]))
         /\ d.resp.status # 403

====
